---------------------------- MODULE Spec2Model ----------------------------
(***************************************************************************)
(* Verification model of DailyInvestmentIdeas:                             *)
(*   src/analyze_data.py     DataAnalyzer (load, metrics, ideas, save)     *)
(*   src/collect_data.py     collector (fallback chains, save_data, main)  *)
(*   src/cloud_functions.py  cloud sync (update_investment_data)           *)
(*                                                                         *)
(* Conventions                                                             *)
(*   - a Python dict is a sequence of pairs [k |-> key, v |-> value] with  *)
(*     distinct keys, in insertion (= iteration) order;                    *)
(*   - a float ratio is an exact rational [num |-> n, den |-> d], d > 0;   *)
(*   - a call that can raise returns a record with a field  raised.        *)
(***************************************************************************)
EXTENDS Integers, Sequences, FiniteSets, TLC

VARIABLES
    \* --- analyze_stock_performance applied to bounded inputs ------------
    stock_data,     \* the mapping ticker -> item handed to the function
    period,         \* the window size handed to the function
    performance,    \* what the call returned: [raised, perf]
    pcPerf,         \* "init" before the call, "done" after it
    \* --- a run of the analyzer: analyze_data.main -----------------------
    RAW_DATA_DIR,   \* the files of the raw data directory
    TODAY,          \* the date the running process computed at import
    self_markets,   \* self.markets
    self_data,      \* self.data
    self_ideas,     \* self.ideas
    evaluated,      \* rule blocks reached by generate_investment_ideas
    PROCESSED_DATA_DIR,   \* the ideas files, by date
    pc,             \* position in main: "start", "loaded", "generated",
                    \* "saved", or "crashed" (an exception left main)
    \* --- collect_data.generate_mock_stock_history, invoked twice ---------
    rng,            \* state of Python's module-level random generator
    mock_ticker,    \* the ticker both invocations are for
    first_history,  \* what the first invocation returned
    second_history, \* what the second invocation returned
    pcMock,         \* "init", "one" (first invocation done), "both"
    \* --- a run of the collector: collect_data.main ----------------------
    services,       \* what each external service does during the run
    all_failed_items,    \* all_failed_items of main
    markets_processed,   \* markets_processed of main
    cpc,            \* position in main: "markets", "other", "done"
    \* --- cloud_functions.update_investment_data -------------------------
    cloud_env,      \* what is_running_on_cloud reads, the cloud paths whose
                    \* upload raises, and whether the collection or the
                    \* analysis raises
    bucket,         \* the objects of the storage bucket
    pending,        \* files the running upload loop has not reached yet
    result,         \* what update_investment_data returned
    local_before,   \* the local directories when the uploads began
    pcCloud,        \* "start", "collected", "raw", "processed", "returned"
    \* --- collector runs over several days, then load_data ---------------
    last_written,   \* for each file type, the content its last writer wrote
    runs,           \* number of collector runs so far
    loaded,         \* what load_data returned: [markets, data]
    pcStore,        \* "ready", or "loaded" right after load_data
    \* --- analyzer methods applied to bounded inputs ---------------------
    indicators,     \* what analyze_technical_indicators returned
    finnhub_analysis,    \* what analyze_finnhub_data returned
    pcFn,           \* "init" before the call, "done" after it
    \* --- an instrument series from its creation to its analysis --------
    in_memory,      \* the mapping ticker -> item held in memory
    created,        \* the same mapping as it was when it was created
    pcSeries,       \* "created", "saved", "loaded", "performance",
                    \* "indicators"
    \* --- fetch_stock_data applied to bounded inputs --------------------
    fetch_tickers,  \* the tickers argument
    fetch_returned, \* what the call returned, with the tickers each later
                    \* stage was asked for
    pcFetch         \* "init" before the call, "done" after it

perfVars == <<stock_data, period, performance, pcPerf>>

dirVars == <<RAW_DATA_DIR, TODAY>>

runVars == <<self_markets, self_data, self_ideas, evaluated, pc>>

analyzerVars == <<runVars, PROCESSED_DATA_DIR>>

mockVars == <<mock_ticker, first_history, second_history, pcMock>>

collectVars == <<services, all_failed_items, markets_processed, cpc>>

cloudVars == <<cloud_env, bucket, pending, result, local_before, pcCloud>>

storeVars == <<last_written, runs, loaded, pcStore>>

fnVars == <<indicators, finnhub_analysis, pcFn>>

seriesVars == <<in_memory, created, pcSeries>>

fetchVars == <<fetch_tickers, fetch_returned, pcFetch>>

vars ==
    <<perfVars, dirVars, analyzerVars, rng, mockVars, collectVars, cloudVars,
      storeVars, fnVars, seriesVars, fetchVars>>

\* the variables each specification leaves alone
outsidePerf ==
    <<dirVars, analyzerVars, rng, mockVars, collectVars, cloudVars, storeVars,
      fnVars, seriesVars, fetchVars>>

outsideAnalyzer ==
    <<perfVars, rng, mockVars, collectVars, cloudVars, storeVars, fnVars,
      seriesVars, fetchVars>>

outsideMock ==
    <<perfVars, dirVars, analyzerVars, collectVars, cloudVars, storeVars,
      fnVars, seriesVars, fetchVars>>

outsideCollect ==
    <<perfVars, analyzerVars, mockVars, cloudVars, storeVars, fnVars,
      seriesVars, fetchVars>>

outsideCloud ==
    <<perfVars, TODAY, runVars, rng, mockVars, collectVars, storeVars, fnVars,
      seriesVars, fetchVars>>

outsideStore ==
    <<perfVars, analyzerVars, rng, mockVars, collectVars, cloudVars, fnVars,
      seriesVars, fetchVars>>

outsideFn ==
    <<perfVars, dirVars, analyzerVars, rng, mockVars, collectVars, cloudVars,
      storeVars, seriesVars, fetchVars>>

outsideFetch ==
    <<perfVars, RAW_DATA_DIR, analyzerVars, mockVars, all_failed_items,
      markets_processed, cpc, cloudVars, storeVars, fnVars, seriesVars>>

outsideSeries ==
    <<stock_data, period, pcPerf, analyzerVars, rng, mockVars, collectVars,
      cloudVars, storeVars, finnhub_analysis, pcFn, fetchVars>>

-----------------------------------------------------------------------------
(* Bounds of the model *)

MaxLen    == 3    \* longest exhaustively enumerated series
MaxClose  == 3    \* closes of the enumerated series are 1..MaxClose
MaxPeriod == 3    \* windows 1..MaxPeriod (and the default window)

(* Program constants *)

DefaultPeriod == 7     \* analyze_stock_performance(self, stock_data, period=7)

-----------------------------------------------------------------------------
(* Python dicts as ordered sequences of pairs *)

Keys(d) == [i \in 1..Len(d) |-> d[i].k]

KeySet(d) == {d[i].k : i \in 1..Len(d)}

Has(d, key) == \E i \in 1..Len(d) : d[i].k = key

Get(d, key) == d[CHOOSE i \in 1..Len(d) : d[i].k = key].v

Pair(key, val) == [k |-> key, v |-> val]

\* d[key] = val : replaces in place when the key exists, appends otherwise
Put(d, key, val) ==
    IF Has(d, key)
    THEN [i \in 1..Len(d) |-> IF d[i].k = key THEN Pair(key, val) ELSE d[i]]
    ELSE Append(d, Pair(key, val))

(* Exact ratios *)

Rat(n, d) == [num |-> n, den |-> d]

RatEq(a, b) == a.num * b.den = b.num * a.den

RatLess(a, b) == a.num * b.den < b.num * a.den

-----------------------------------------------------------------------------
(* JSON items of a snapshot.  An item is what a ticker maps to:             *)
(*   kind "dict"   : an object; hasHistory says whether it has a 'history'  *)
(*                   key, history is that list, barsOk says whether every   *)
(*                   bar has the Date/Close columns the DataFrame code      *)
(*                   reads, info is "dict" | "missing" | "null", sector is  *)
(*                   info.sector ("" when info has no sector key)           *)
(*   kind "list"   : a bare list of bars (no 'history' key)                 *)
(*   kind "number" : a JSON number or null                                  *)

Bar(d, c) == [Date |-> d, Close |-> c]

Wrapped(h, sec) ==
    [kind |-> "dict", hasHistory |-> TRUE, history |-> h, barsOk |-> TRUE,
     info |-> "dict", sector |-> sec]

NoHistory ==
    [kind |-> "dict", hasHistory |-> FALSE, history |-> <<>>, barsOk |-> TRUE,
     info |-> "dict", sector |-> "Unknown"]

BareList(h) ==
    [kind |-> "list", hasHistory |-> FALSE, history |-> h, barsOk |-> TRUE,
     info |-> "missing", sector |-> ""]

NumberItem ==
    [kind |-> "number", hasHistory |-> FALSE, history |-> <<>>, barsOk |-> TRUE,
     info |-> "missing", sector |-> ""]

-----------------------------------------------------------------------------
(* DataAnalyzer.analyze_stock_performance *)

\* mutant: the frame is used in input order (sort_index dropped)
sort_index_Dropped(h) == h

\* df.sort_index(): ascending by Date
RECURSIVE InsertByDate(_, _)
InsertByDate(bar, s) ==
    IF s = <<>> THEN <<bar>>
    ELSE IF bar.Date < Head(s).Date THEN <<bar>> \o s
    ELSE <<Head(s)>> \o InsertByDate(bar, Tail(s))

RECURSIVE sort_index(_)
sort_index(h) ==
    IF h = <<>> THEN <<>>
    ELSE InsertByDate(h[Len(h)], sort_index(SubSeq(h, 1, Len(h) - 1)))

\* df.tail(n)
tail(df, n) == IF Len(df) <= n THEN df ELSE SubSeq(df, Len(df) - n + 1, Len(df))

\* the metrics record of lines 212-220 (return, latest_close, is_uptrend)
PerformanceMetrics(recent) ==
    LET start_price == recent[1].Close
        end_price   == recent[Len(recent)].Close
    IN  [return       |-> Rat((end_price - start_price) * 100, start_price),
         latest_close |-> end_price,
         is_uptrend   |-> end_price > start_price]

\* the test of line 190; raises TypeError on a number (argument not iterable)
ItemRaises(data) == data.kind = "number"

SkipsItem(data) ==
    \/ data.kind = "list"                 \* 'history' not in <list of bars>
    \/ ~data.hasHistory                   \* 'history' not in data
    \/ data.history = <<>>                \* not data['history']

\* mutant: the window test of line 202 off by one (<= instead of <)
PerfEntry_OffByOne(data, p) ==
    LET df     == sort_index(data.history)
        recent == tail(df, p)
    IN  IF ~data.barsOk THEN [has |-> FALSE]
        ELSE IF Len(recent) <= p THEN [has |-> FALSE]
        ELSE [has |-> TRUE, m |-> PerformanceMetrics(recent)]

\* one iteration of the loop of line 189 on an item the test lets through
PerfEntry(data, p) ==
    LET df     == sort_index(data.history)
        recent == tail(df, p)
    IN  IF ~data.barsOk THEN [has |-> FALSE]          \* KeyError, caught at 222
        ELSE IF Len(recent) < p THEN [has |-> FALSE]  \* line 202
        ELSE [has |-> TRUE, m |-> PerformanceMetrics(recent)]

RECURSIVE PerfLoop(_, _, _)
PerfLoop(items, p, acc) ==
    IF items = <<>> THEN [raised |-> FALSE, perf |-> acc]
    ELSE LET ticker == Head(items).k
             data   == Head(items).v
         IN  IF ItemRaises(data) THEN [raised |-> TRUE, perf |-> acc]
             ELSE IF SkipsItem(data) THEN PerfLoop(Tail(items), p, acc)
             ELSE LET e == PerfEntry(data, p)
                  IN  PerfLoop(Tail(items), p,
                               IF e.has THEN Put(acc, ticker, e.m) ELSE acc)

\* a snapshot is [json |-> "dict", items |-> <<pairs>>] or another JSON value;
\* stock_data.items() raises AttributeError unless the snapshot is a dict
analyze_stock_performance(snapshot, p) ==
    IF snapshot.json # "dict" THEN [raised |-> TRUE, perf |-> <<>>]
    ELSE PerfLoop(snapshot.items, p, <<>>)

-----------------------------------------------------------------------------
(* Values that may be None: a number is [none |-> FALSE, num, den] *)

NoneVal == [none |-> TRUE, num |-> 0, den |-> 1]

Num(r) == [none |-> FALSE, num |-> r.num, den |-> r.den]

IsNumber(v) == ~v.none      \* isinstance(v, (int, float))

-----------------------------------------------------------------------------
(* DataAnalyzer.analyze_technical_indicators *)

MinBarsForIndicators == 20    \* if len(df) < 20: continue
RsiWindow == 14               \* rolling(window=14)

\* delta.where(delta > 0, 0) at row i (row 1 has delta NaN, replaced by 0)
GainAt(df, i) ==
    IF i > 1 /\ df[i].Close - df[i - 1].Close > 0
    THEN df[i].Close - df[i - 1].Close ELSE 0

\* mutant: the sign of the losses is kept (the leading minus dropped)
LossAt_Signed(df, i) ==
    IF i > 1 /\ df[i].Close - df[i - 1].Close < 0
    THEN df[i].Close - df[i - 1].Close ELSE 0

\* -delta.where(delta < 0, 0) at row i
LossAt(df, i) ==
    IF i > 1 /\ df[i].Close - df[i - 1].Close < 0
    THEN df[i - 1].Close - df[i].Close ELSE 0

\* rolling(window=14).sum() of the gains, rows lo..hi
RECURSIVE SumGains(_, _, _)
SumGains(df, lo, hi) ==
    IF lo > hi THEN 0 ELSE GainAt(df, lo) + SumGains(df, lo + 1, hi)

RECURSIVE SumLosses(_, _, _)
SumLosses(df, lo, hi) ==
    IF lo > hi THEN 0 ELSE LossAt(df, lo) + SumLosses(df, lo + 1, hi)

\* latest['RSI'] : 100 - 100 / (1 + gain / loss) over the last 14 rows, None
\* when the window is incomplete or gain / loss is NaN (0 / 0)
LatestRSI(df) ==
    LET n == Len(df)
        G == SumGains(df, n - RsiWindow + 1, n)
        L == SumLosses(df, n - RsiWindow + 1, n)
    IN  IF n < RsiWindow THEN NoneVal
        ELSE IF G = 0 /\ L = 0 THEN NoneVal
        ELSE Num(Rat(100 * G, G + L))

BandWindow == 20              \* rolling(window=20)

RECURSIVE SumCloses(_, _, _)
SumCloses(df, lo, hi) ==
    IF lo > hi THEN 0 ELSE df[lo].Close + SumCloses(df, lo + 1, hi)

RECURSIVE SumSquares(_, _, _)
SumSquares(df, lo, hi) ==
    IF lo > hi THEN 0
    ELSE df[lo].Close * df[lo].Close + SumSquares(df, lo + 1, hi)

NoPosition == [none |-> TRUE, nan |-> FALSE, offset |-> 0, spread |-> 0]

\* line 326 on the latest row, S1 and S2 being the sum and the sum of squares
\* of the last 20 closes.  The bands are defined from 20 rows on.  With
\* m = S1 / 20 and std^2 = spread / (20 * 19) the value is
\* (Close - m + 2 std) / (4 std): offset = 20 * (Close - m).  When the 20
\* closes are equal std is 0 and the float division 0.0 / 0.0 gives NaN.
LatestBollinger(df, S1, S2) ==
    IF Len(df) < BandWindow THEN NoPosition
    ELSE [none |-> FALSE, nan |-> BandWindow * S2 - S1 * S1 = 0,
          offset |-> BandWindow * df[Len(df)].Close - S1,
          spread |-> BandWindow * S2 - S1 * S1]

\* first row of the window of w rows that ends at the latest row
WindowStart(df, w) == IF Len(df) < w THEN 1 ELSE Len(df) - w + 1

\* the record of lines 320-327 (rsi and bb_position)
Indicators(df) ==
    [rsi |-> LatestRSI(df),
     bb_position |->
         LatestBollinger(df, SumCloses(df, WindowStart(df, BandWindow), Len(df)),
                         SumSquares(df, WindowStart(df, BandWindow), Len(df)))]

\* mutant: the length test of line 290 dropped
TechEntry_NoLengthTest(data) ==
    LET df == sort_index(data.history)
    IN  IF ~data.barsOk THEN [has |-> FALSE]
        ELSE [has |-> TRUE, m |-> Indicators(df)]

\* the try body of lines 283-330 for one item
TechEntry(data) ==
    LET df == sort_index(data.history)
    IN  IF ~data.barsOk THEN [has |-> FALSE]                  \* caught at 329
        ELSE IF Len(df) < MinBarsForIndicators THEN [has |-> FALSE]
        ELSE [has |-> TRUE, m |-> Indicators(df)]

RECURSIVE TechLoop(_, _)
TechLoop(items, acc) ==
    IF items = <<>> THEN [raised |-> FALSE, ind |-> acc]
    ELSE LET ticker == Head(items).k
             data   == Head(items).v
         IN  IF ItemRaises(data) THEN [raised |-> TRUE, ind |-> acc]
             ELSE IF SkipsItem(data) THEN TechLoop(Tail(items), acc)
             ELSE LET e == TechEntry(data)
                  IN  TechLoop(Tail(items),
                               IF e.has THEN Put(acc, ticker, e.m) ELSE acc)

analyze_technical_indicators(snapshot) ==
    IF snapshot.json # "dict" THEN [raised |-> TRUE, ind |-> <<>>]
    ELSE TechLoop(snapshot.items, <<>>)

-----------------------------------------------------------------------------
(* DataAnalyzer.analyze_market *)

TopCount == 5          \* sorted_stocks[:5]
SectorTopCount == 3    \* sector_stocks[:3]

\* mutant: an entry is put before the entries of equal return
RECURSIVE InsertByReturn_Unstable(_, _)
InsertByReturn_Unstable(e, s) ==
    IF s = <<>> THEN <<e>>
    ELSE IF ~RatLess(e.v.return, Head(s).v.return) THEN <<e>> \o s
    ELSE <<Head(s)>> \o InsertByReturn_Unstable(e, Tail(s))

\* sorted(..., key=return, reverse=True) and list.sort(reverse=True): stable,
\* so entries with equal return keep their input order
RECURSIVE InsertByReturn(_, _)
InsertByReturn(e, s) ==
    IF s = <<>> THEN <<e>>
    ELSE IF RatLess(Head(s).v.return, e.v.return) THEN <<e>> \o s
    ELSE <<Head(s)>> \o InsertByReturn(e, Tail(s))

RECURSIVE sorted_by_return(_)
sorted_by_return(d) ==
    IF d = <<>> THEN <<>>
    ELSE InsertByReturn(d[Len(d)], sorted_by_return(SubSeq(d, 1, Len(d) - 1)))

FirstN(s, n) == IF Len(s) <= n THEN s ELSE SubSeq(s, 1, n)

\* item.get("info", {}).get("sector", "Unknown"): AttributeError when the
\* item is no dict or its info is null
GetSector(item) ==
    [raised |-> item.kind # "dict" \/ item.info = "null",
     sector |-> IF item.info = "dict" /\ item.sector # "" THEN item.sector
                ELSE "Unknown"]

\* lines 540-544: the sector count of the top performers
RECURSIVE CountSectors(_, _, _)
CountSectors(top, stocks_items, acc) ==
    IF top = <<>> THEN [raised |-> FALSE, sectors |-> acc]
    ELSE LET gs == GetSector(Get(stocks_items, Head(top).k))
         IN  IF gs.raised THEN [raised |-> TRUE, sectors |-> acc]
             ELSE CountSectors(Tail(top), stocks_items,
                      Put(acc, gs.sector,
                          (IF Has(acc, gs.sector) THEN Get(acc, gs.sector) ELSE 0) + 1))

\* mutant: the last pair holding the greatest value
FirstMaxCount_Last(d) ==
    d[CHOOSE i \in 1..Len(d) :
        /\ \A j \in 1..Len(d) : d[j].v <= d[i].v
        /\ \A j \in (i + 1)..Len(d) : d[j].v < d[i].v]

\* max(d.items(), key=lambda x: x[1]): the first pair holding the greatest value
FirstMaxCount(d) ==
    d[CHOOSE i \in 1..Len(d) :
        /\ \A j \in 1..Len(d) : d[j].v <= d[i].v
        /\ \A j \in 1..(i - 1) : d[j].v < d[i].v]

NoAnalysis(st) ==
    [status |-> st, index_performance |-> <<>>, top_performers |-> <<>>,
     dominant_sector |-> "Unknown", stocks_performance |-> <<>>,
     technical_indicators |-> <<>>]

\* mk is self.markets[market_name] = [index |-> snapshot, stocks |-> snapshot];
\* status is "raised", "none" (return None) or "ok"
analyze_market(mk) ==
    LET index_perf  == analyze_stock_performance(mk.index, DefaultPeriod)
        stocks_perf == analyze_stock_performance(mk.stocks, DefaultPeriod)
        stocks_tech == analyze_technical_indicators(mk.stocks)
        sorted_stocks == sorted_by_return(stocks_perf.perf)
        top_performers == FirstN(sorted_stocks, TopCount)
        counted == CountSectors(top_performers, mk.stocks.items, <<>>)
    IN  IF index_perf.raised THEN NoAnalysis("raised")
        ELSE IF index_perf.perf = <<>> THEN NoAnalysis("none")      \* line 514
        ELSE IF stocks_perf.raised \/ stocks_tech.raised THEN NoAnalysis("raised")
        ELSE IF stocks_perf.perf = <<>> THEN NoAnalysis("none")     \* line 564
        ELSE IF counted.raised THEN NoAnalysis("raised")
        ELSE [status |-> "ok",
              index_performance |-> index_perf.perf,
              top_performers |-> top_performers,
              dominant_sector |->
                  IF counted.sectors = <<>> THEN "Unknown"
                  ELSE FirstMaxCount(counted.sectors).k,
              stocks_performance |-> stocks_perf.perf,
              technical_indicators |-> stocks_tech.ind]

-----------------------------------------------------------------------------
(* DataAnalyzer.analyze_finnhub_data                                        *)
(*   sentiment item : [news_score, buzz]          (in tenths)               *)
(*   earnings item  : list of [period, surprisePercent]  (surprisePercent   *)
(*                    a whole percentage or None, period a day number or 0  *)
(*                    when the key is missing)                              *)
(*   insider item   : list of transactions [change]  (change may be None)   *)

RequiredFinnhub ==
    <<"finnhub_quotes", "finnhub_sentiment", "finnhub_earnings", "finnhub_insider">>

ScoreThreshold == 5      \* data['finnhub_score'] > 5
InsiderThreshold == 2    \* data['insider']['net_transactions'] > 2
ClampLimit == 10         \* min(10, max(-10, x))

Min(a, b) == IF a < b THEN a ELSE b
Max(a, b) == IF a > b THEN a ELSE b
Clamp(x) == Min(ClampLimit, Max(-ClampLimit, x))
Abs(x) == IF x < 0 THEN -x ELSE x

\* `ticker in self.data[type]`: TypeError on a number, False on a list
InSnapshot(snapshot, ticker) ==
    [raised |-> snapshot.json = "number",
     has    |-> snapshot.json = "dict" /\ Has(snapshot.items, ticker)]

\* mutant: the loop is not left at the first match (break dropped)
RECURSIVE UpcomingLoop_NoBreak(_, _, _, _)
UpcomingLoop_NoBreak(earnings, now, i, found) ==
    IF i > Len(earnings) THEN found
    ELSE UpcomingLoop_NoBreak(earnings, now, i + 1,
             IF earnings[i].period # 0 /\ earnings[i].period > now THEN i
             ELSE found)

\* lines 398-401: the loop over the reports from position i on, left at the
\* first report that has a period and is dated after now; 0 when none is
RECURSIVE UpcomingLoop(_, _, _)
UpcomingLoop(earnings, now, i) ==
    IF i > Len(earnings) THEN 0
    ELSE IF earnings[i].period # 0 /\ earnings[i].period > now THEN i
    ELSE UpcomingLoop(earnings, now, i + 1)

\* mutant: the last report dated after now
UpcomingIndex_NoBreak(earnings, now) == UpcomingLoop_NoBreak(earnings, now, 1, 0)

UpcomingIndex(earnings, now) == UpcomingLoop(earnings, now, 1)

\* mutant: a transaction with zero change counts on both sides
RECURSIVE CountTx_ZeroCounts(_, _)
CountTx_ZeroCounts(txs, sign) ==
    IF txs = <<>> THEN 0
    ELSE (IF sign * Head(txs).change.num >= 0 THEN 1 ELSE 0)
            + CountTx_ZeroCounts(Tail(txs), sign)

\* lines 436-442: the transactions whose change has the given sign
RECURSIVE CountTx(_, _)
CountTx(txs, sign) ==
    IF txs = <<>> THEN 0
    ELSE (IF sign * Head(txs).change.num > 0 THEN 1 ELSE 0) + CountTx(Tail(txs), sign)

RECURSIVE VolumeTx(_, _)
VolumeTx(txs, sign) ==
    IF txs = <<>> THEN 0
    ELSE (IF sign * Head(txs).change.num > 0 THEN Abs(Head(txs).change.num) ELSE 0)
            + VolumeTx(Tail(txs), sign)

\* mutant: the sum of the components is always divided by three
FinnhubScore_FixedThree(a) ==
    LET sent == IF a.hasSentiment THEN a.news_score * Min(10, a.buzz) ELSE 0
        earn == IF a.hasLatest /\ ~a.surprise_pct.none
                THEN 10 * Clamp(a.surprise_pct.num) ELSE 0
        ins  == IF a.hasInsider THEN 10 * Clamp(a.net_transactions * 2) ELSE 0
    IN  Rat(sent + earn + ins, 30)

\* lines 453-478 on the analysis record a
FinnhubScore(a) ==
    LET sent == IF a.hasSentiment THEN a.news_score * Min(10, a.buzz) ELSE 0
        earn == IF a.hasLatest /\ ~a.surprise_pct.none
                THEN 10 * Clamp(a.surprise_pct.num) ELSE 0
        ins  == IF a.hasInsider THEN 10 * Clamp(a.net_transactions * 2) ELSE 0
        score_components ==
            (IF a.hasSentiment THEN 1 ELSE 0)
            + (IF a.hasLatest /\ ~a.surprise_pct.none THEN 1 ELSE 0)
            + (IF a.hasInsider THEN 1 ELSE 0)
    IN  IF score_components > 0 THEN Rat(sent + earn + ins, 10 * score_components)
        ELSE Rat(0, 1)

\* the try body of lines 362-481 for one ticker; ok = FALSE when it raised
\* (caught at 483: the ticker gets no entry)
TickerAnalysis(data, ticker, now) ==
    LET inS == InSnapshot(Get(data, "finnhub_sentiment"), ticker)
        inE == InSnapshot(Get(data, "finnhub_earnings"), ticker)
        inI == InSnapshot(Get(data, "finnhub_insider"), ticker)
        sentiment == Get(Get(data, "finnhub_sentiment").items, ticker)
        earnings  == Get(Get(data, "finnhub_earnings").items, ticker)
        txs       == Get(Get(data, "finnhub_insider").items, ticker)
        up        == UpcomingIndex(earnings, now)
        hasIns    == inI.has /\ txs # <<>>
        a0 == [hasSentiment |-> inS.has,
               news_score   |-> IF inS.has THEN sentiment.news_score ELSE 0,
               buzz         |-> IF inS.has THEN sentiment.buzz ELSE 0,
               hasUpcoming  |-> inE.has /\ up # 0,
               upcoming_date |-> IF inE.has /\ up # 0 THEN earnings[up].period ELSE 0,
               hasLatest    |-> inE.has /\ earnings # <<>>,
               latest_date  |-> IF inE.has /\ earnings # <<>>
                                THEN earnings[1].period ELSE 0,
               surprise_pct |-> IF inE.has /\ earnings # <<>>
                                THEN earnings[1].surprisePercent ELSE NoneVal,
               hasInsider   |-> hasIns,
               buy_count    |-> IF hasIns THEN CountTx(txs, 1) ELSE 0,
               sell_count   |-> IF hasIns THEN CountTx(txs, -1) ELSE 0,
               buy_volume   |-> IF hasIns THEN VolumeTx(txs, 1) ELSE 0,
               sell_volume  |-> IF hasIns THEN VolumeTx(txs, -1) ELSE 0,
               net_transactions |->
                   IF hasIns THEN CountTx(txs, 1) - CountTx(txs, -1) ELSE 0]
    IN  IF inS.raised \/ inE.raised \/ inI.raised THEN [ok |-> FALSE]
        ELSE IF inI.has /\ \E i \in 1..Len(txs) : txs[i].change.none
             THEN [ok |-> FALSE]                 \* None > 0 : TypeError
        ELSE [ok |-> TRUE, a |-> a0 @@ [finnhub_score |-> FinnhubScore(a0)]]

RECURSIVE FinnhubLoop(_, _, _, _)
FinnhubLoop(data, tickers, now, acc) ==
    IF tickers = <<>> THEN acc
    ELSE LET r == TickerAnalysis(data, Head(tickers), now)
         IN  FinnhubLoop(data, Tail(tickers), now,
                         IF r.ok THEN Put(acc, Head(tickers), r.a) ELSE acc)

\* order: the iteration order of set(self.data['finnhub_quotes'].keys())
analyze_finnhub_data(data, order, now) ==
    IF \E i \in 1..Len(RequiredFinnhub) : ~Has(data, RequiredFinnhub[i])
    THEN [raised |-> FALSE, fh |-> <<>>]                        \* line 356
    ELSE IF Get(data, "finnhub_quotes").json # "dict"
    THEN [raised |-> TRUE, fh |-> <<>>]                         \* .keys()
    ELSE [raised |-> FALSE, fh |-> FinnhubLoop(data, order, now, <<>>)]

-----------------------------------------------------------------------------
(* DataAnalyzer.generate_investment_ideas                                   *)
(* The run of the method is a record g = [raised, ideas, evaluated]:        *)
(* raised says an exception left the method, ideas is the list built so     *)
(* far, evaluated lists the rule blocks whose condition has been reached.   *)
(* An idea keeps title (kind and its two arguments), type, asset, market    *)
(* and sector ("" when the key is absent) and metrics (an ordered dict of   *)
(* values that may be None); the volatility metric is left out.  Of the     *)
(* rationale text an idea keeps the list of tickers it names (the           *)
(* sector_stock_list of line 664, empty for the other ideas).  direction is *)
(* the key of the forex idea, "" where an idea has no such key.             *)

Idea(kind, a, b, type, asset, market, sector, metrics) ==
    [title |-> [kind |-> kind, a |-> a, b |-> b], type |-> type,
     asset |-> asset, market |-> market, sector |-> sector, metrics |-> metrics,
     rationale |-> <<>>, direction |-> ""]

Int2Num(n) == Num(Rat(n, 1))

Reached(g, block) == [g EXCEPT !.evaluated = Append(@, block)]

Raise(g) == [g EXCEPT !.raised = TRUE]

AddIdea(g, idea) == [g EXCEPT !.ideas = Append(@, idea)]

\* lines 589-606
OverviewBlock(g, name, mk, analysis) ==
    LET index_ticker == mk.index.items[1].k
    IN  IF Has(analysis.index_performance, index_ticker)
        THEN AddIdea(g, Idea("Market Overview", name, "", "Market Analysis",
                 index_ticker, name, "",
                 <<Pair("return",
                        Num(Get(analysis.index_performance, index_ticker).return))>>))
        ELSE g

\* lines 608-645
TopPerformerBlock(g, name, mk, analysis) ==
    IF analysis.top_performers = <<>> THEN g
    ELSE LET top_ticker == analysis.top_performers[1].k
             top_data   == analysis.top_performers[1].v
             gs         == GetSector(Get(mk.stocks.items, top_ticker))
             rsi_value  == IF Has(analysis.technical_indicators, top_ticker)
                           THEN Get(analysis.technical_indicators, top_ticker).rsi
                           ELSE NoneVal              \* "N/A"
         IN  IF gs.raised THEN Raise(g)
             ELSE AddIdea(g, Idea("Top Performer", name, top_ticker, "Stock",
                      top_ticker, name, gs.sector,
                      <<Pair("return", Num(top_data.return)),
                        Pair("rsi", IF IsNumber(rsi_value) THEN rsi_value
                                    ELSE NoneVal)>>))

\* lines 651-657: [raised, list] over every item of the stocks snapshot
RECURSIVE SectorStocks(_, _, _)
SectorStocks(items, analysis, acc) ==
    IF items = <<>> THEN [raised |-> FALSE, list |-> acc]
    ELSE LET gs == GetSector(Head(items).v)
         IN  IF gs.raised THEN [raised |-> TRUE, list |-> acc]
             ELSE SectorStocks(Tail(items), analysis,
                      IF /\ gs.sector = analysis.dominant_sector
                         /\ Has(analysis.stocks_performance, Head(items).k)
                      THEN Append(acc, Pair(Head(items).k,
                               Get(analysis.stocks_performance, Head(items).k)))
                      ELSE acc)

RECURSIVE SumReturns(_)
SumReturns(list) ==
    IF list = <<>> THEN Rat(0, 1)
    ELSE LET r == Head(list).v.return
             s == SumReturns(Tail(list))
         IN  Rat(r.num * s.den + s.num * r.den, r.den * s.den)

\* lines 648-679
SectorBlock(g, name, mk, analysis) ==
    IF analysis.dominant_sector = "Unknown" THEN g
    ELSE LET ss == SectorStocks(mk.stocks.items, analysis, <<>>)
             sector_stocks == sorted_by_return(ss.list)
             total == SumReturns(sector_stocks)
         IN  IF ss.raised THEN Raise(g)
             ELSE AddIdea(g,
                      [Idea("Sector Strength", analysis.dominant_sector,
                            name, "Sector", analysis.dominant_sector, name, "",
                            <<Pair("stocks_count", Int2Num(Len(sector_stocks))),
                              Pair("avg_return",
                                   IF sector_stocks = <<>> THEN Int2Num(0)
                                   ELSE Num(Rat(total.num,
                                                total.den * Len(sector_stocks))))>>)
                       EXCEPT !.rationale =
                                 Keys(FirstN(sector_stocks, SectorTopCount))])

\* a rule block is evaluated unless an exception has already left the method
OverviewStep(g, name, mk, analysis) ==
    IF g.raised THEN g
    ELSE OverviewBlock(Reached(g, <<"overview", name>>), name, mk, analysis)

TopPerformerStep(g, name, mk, analysis) ==
    IF g.raised THEN g
    ELSE TopPerformerBlock(Reached(g, <<"top", name>>), name, mk, analysis)

SectorStep(g, name, mk, analysis) ==
    IF g.raised THEN g
    ELSE SectorBlock(Reached(g, <<"sector", name>>), name, mk, analysis)

\* mutant: the top-performer block is evaluated twice for a market
MarketBlocks_TopTwice(g, name, mk, analysis) ==
    SectorStep(TopPerformerStep(TopPerformerStep(OverviewStep(g, name, mk, analysis),
                                                 name, mk, analysis),
                                name, mk, analysis),
               name, mk, analysis)

\* one iteration of the loop of line 588
MarketBlocks(g, name, mk, analysis) ==
    SectorStep(TopPerformerStep(OverviewStep(g, name, mk, analysis),
                                name, mk, analysis),
               name, mk, analysis)

\* lines 577-582: [raised, analyses] with the analyses that are not None
RECURSIVE MarketAnalyses(_, _)
MarketAnalyses(markets, acc) ==
    IF markets = <<>> THEN [raised |-> FALSE, analyses |-> acc]
    ELSE LET analysis == analyze_market(Head(markets).v)
         IN  IF analysis.status = "raised" THEN [raised |-> TRUE, analyses |-> acc]
             ELSE MarketAnalyses(Tail(markets),
                      IF analysis.status = "ok"
                      THEN Append(acc, Pair(Head(markets).k, analysis)) ELSE acc)

RECURSIVE MarketLoop(_, _, _)
MarketLoop(g, markets, analyses) ==
    IF analyses = <<>> \/ g.raised THEN g
    ELSE MarketLoop(MarketBlocks(g, Head(analyses).k,
                                 Get(markets, Head(analyses).k), Head(analyses).v),
                    markets, Tail(analyses))

\* max(d.items(), key=...): the first pair, in dict order, no other exceeds
FirstMaxScore(d) ==
    d[CHOOSE i \in 1..Len(d) :
        /\ \A j \in 1..Len(d) : ~RatLess(d[i].v.finnhub_score, d[j].v.finnhub_score)
        /\ \A j \in 1..(i - 1) : RatLess(d[j].v.finnhub_score, d[i].v.finnhub_score)]

FirstMaxNet(d) ==
    d[CHOOSE i \in 1..Len(d) :
        /\ \A j \in 1..Len(d) : d[j].v.net_transactions <= d[i].v.net_transactions
        /\ \A j \in 1..(i - 1) : d[j].v.net_transactions < d[i].v.net_transactions]

FirstMaxReturn(d) ==
    d[CHOOSE i \in 1..Len(d) :
        /\ \A j \in 1..Len(d) : ~RatLess(d[i].v.return, d[j].v.return)
        /\ \A j \in 1..(i - 1) : RatLess(d[j].v.return, d[i].v.return)]

HighScore(e) == RatLess(Rat(ScoreThreshold, 1), e.v.finnhub_score)

SignificantInsider(e) == e.v.hasInsider /\ e.v.net_transactions > InsiderThreshold

\* mutant: the best ticker is sought among those no idea is about yet
AltDataBlock_NextUnfeatured(g, fh) ==
    LET high_score_stocks ==
            SelectSeq(fh, LAMBDA e :
                HighScore(e) /\ ~\E i \in 1..Len(g.ideas) : g.ideas[i].asset = e.k)
        best    == FirstMaxScore(high_score_stocks)
        ticker  == best.k
        fh_data == best.v
    IN  IF fh = <<>> \/ high_score_stocks = <<>> THEN g
        ELSE IF fh_data.hasLatest /\ fh_data.surprise_pct.none
             THEN Raise(g)
        ELSE AddIdea(g, Idea("Alternative Data Pick", ticker, "", "Stock",
                 ticker, "", "",
                 <<Pair("finnhub_score", Num(fh_data.finnhub_score)),
                   Pair("sentiment", IF fh_data.hasSentiment
                                     THEN Num(Rat(fh_data.news_score, 10))
                                     ELSE NoneVal),
                   Pair("insider_buys", IF fh_data.hasInsider
                                        THEN Int2Num(fh_data.buy_count)
                                        ELSE NoneVal),
                   Pair("earnings_surprise", IF fh_data.hasLatest
                                             THEN fh_data.surprise_pct
                                             ELSE NoneVal)>>))

\* lines 685-727 (inside `if finnhub_analysis:`)
AltDataBlock(g, fh) ==
    LET high_score_stocks == SelectSeq(fh, HighScore)
        best    == FirstMaxScore(high_score_stocks)
        ticker  == best.k
        fh_data == best.v
    IN  IF fh = <<>> \/ high_score_stocks = <<>> THEN g
        ELSE IF \E i \in 1..Len(g.ideas) : g.ideas[i].asset = ticker THEN g
        ELSE IF fh_data.hasLatest /\ fh_data.surprise_pct.none
             THEN Raise(g)                       \* line 705: None > 0
        ELSE AddIdea(g, Idea("Alternative Data Pick", ticker, "", "Stock",
                 ticker, "", "",
                 <<Pair("finnhub_score", Num(fh_data.finnhub_score)),
                   Pair("sentiment", IF fh_data.hasSentiment
                                     THEN Num(Rat(fh_data.news_score, 10))
                                     ELSE NoneVal),
                   Pair("insider_buys", IF fh_data.hasInsider
                                        THEN Int2Num(fh_data.buy_count)
                                        ELSE NoneVal),
                   Pair("earnings_surprise", IF fh_data.hasLatest
                                             THEN fh_data.surprise_pct
                                             ELSE NoneVal)>>))

\* lines 729-751 (inside `if finnhub_analysis:`)
InsiderBlock(g, fh) ==
    LET insider_stocks == SelectSeq(fh, SignificantInsider)
        best == FirstMaxNet(insider_stocks)
    IN  IF fh = <<>> \/ insider_stocks = <<>> THEN g
        ELSE IF \E i \in 1..Len(g.ideas) : g.ideas[i].title.kind = "Insider Activity"
             THEN g
        ELSE AddIdea(g, Idea("Insider Activity", best.k, "", "Stock",
                 best.k, "", "",
                 <<Pair("net_buys", Int2Num(best.v.net_transactions)),
                   Pair("buy_volume", Int2Num(best.v.buy_volume)),
                   Pair("sell_volume", Int2Num(best.v.sell_volume))>>))

\* forex_names.get(pair_ticker, pair_ticker)
ForexName(t) ==
    CASE t = "EURUSD=X" -> "EUR/USD"
      [] t = "GBPUSD=X" -> "GBP/USD"
      [] t = "USDJPY=X" -> "USD/JPY"
      [] t = "USDCAD=X" -> "USD/CAD"
      [] t = "AUDUSD=X" -> "AUD/USD"
      [] t = "USDCNY=X" -> "USD/CNY"
      [] OTHER -> t

ForexMove == 1     \* abs(pair_perf["return"]) > 1.0
YieldMove == 3     \* abs(yield_change) > 3

\* abs(r) > n for a ratio r
AbsExceeds(r, n) == Abs(r.num) > n * r.den

\* lines 753-787
ForexBlock(g, data) ==
    IF ~Has(data, "forex") THEN g
    ELSE LET forex_perf == analyze_stock_performance(Get(data, "forex"), DefaultPeriod)
             strongest  == FirstMaxReturn(forex_perf.perf)
             pair_name  == ForexName(strongest.k)
         IN  IF forex_perf.raised THEN Raise(g)
             ELSE IF forex_perf.perf = <<>> THEN g
             ELSE IF AbsExceeds(strongest.v.return, ForexMove)
                  THEN AddIdea(g,
                           [Idea("Forex Opportunity", pair_name, "", "Forex",
                                 pair_name, "", "",
                                 <<Pair("return", Num(strongest.v.return))>>)
                            EXCEPT !.direction =
                                      IF RatLess(Rat(0, 1), strongest.v.return)
                                      THEN "bullish"
                                      ELSE "bearish"])
             ELSE g

\* lines 789-811
BondBlock(g, data) ==
    IF ~Has(data, "bonds") THEN g
    ELSE LET bond_perf == analyze_stock_performance(Get(data, "bonds"), DefaultPeriod)
             yield_change == Get(bond_perf.perf, "^TNX").return
         IN  IF bond_perf.raised THEN Raise(g)
             ELSE IF ~Has(bond_perf.perf, "^TNX") THEN g
             ELSE IF AbsExceeds(yield_change, YieldMove)
                  THEN AddIdea(g, Idea("Bond Market Development", "", "", "Bonds",
                           "10-Year Treasury", "", "",
                           <<Pair("yield_change", Num(yield_change))>>))
             ELSE g

AltDataStep(g, fh) ==
    IF g.raised THEN g
    ELSE IF fh.raised THEN Raise(g)          \* analyze_finnhub_data raised
    ELSE AltDataBlock(Reached(g, <<"alternative data">>), fh.fh)

InsiderStep(g, fh) ==
    IF g.raised THEN g ELSE InsiderBlock(Reached(g, <<"insider">>), fh.fh)

ForexStep(g, data) ==
    IF g.raised THEN g ELSE ForexBlock(Reached(g, <<"forex">>), data)

BondStep(g, data) ==
    IF g.raised THEN g ELSE BondBlock(Reached(g, <<"bond">>), data)

NoIdeas == [raised |-> FALSE, ideas |-> <<>>, evaluated |-> <<>>]

\* mutant: the forex block is evaluated before the two Finnhub blocks
RuleBlocks_ForexFirst(markets, data, ma, fh) ==
    IF ma.raised THEN Raise(NoIdeas)
    ELSE BondStep(
             InsiderStep(
                 AltDataStep(
                     ForexStep(MarketLoop(NoIdeas, markets, ma.analyses), data),
                     fh),
                 fh),
             data)

\* lines 588-811 given the market analyses ma and the finnhub analysis fh
RuleBlocks(markets, data, ma, fh) ==
    IF ma.raised THEN Raise(NoIdeas)
    ELSE BondStep(
             ForexStep(
                 InsiderStep(
                     AltDataStep(MarketLoop(NoIdeas, markets, ma.analyses), fh),
                     fh),
                 data),
             data)

\* the whole method; order is the iteration order of the ticker set and now
\* the day of the run.  When an exception leaves the method, self.ideas is
\* not assigned (line 814 is not reached).
generate_investment_ideas(markets, data, order, now) ==
    RuleBlocks(markets, data, MarketAnalyses(markets, <<>>),
               analyze_finnhub_data(data, order, now))

-----------------------------------------------------------------------------
(* The raw data directory and DataAnalyzer.load_data                        *)
(* A file is [type, date, content]: its name is {type}_{date}.json, so a    *)
(* directory holds at most one file per type and date.  A date is           *)
(* [y, m, d]; its text is what strftime("%Y-%m-%d") prints, a sequence of   *)
(* character codes.  A content is a JSON value [json, items] with json in   *)
(* "dict" | "list" | "number", or [json |-> "invalid"] for a file that      *)
(* json.load rejects.                                                       *)

Digit(n) == 48 + n      \* ord('0') + n
Dash == 45              \* ord('-')

\* mutant: month and day printed without zero padding
strftime_Unpadded(date) ==
    <<Digit(date.y \div 1000), Digit((date.y \div 100) % 10),
      Digit((date.y \div 10) % 10), Digit(date.y % 10), Dash>>
    \o (IF date.m >= 10 THEN <<Digit(date.m \div 10)>> ELSE <<>>)
    \o <<Digit(date.m % 10), Dash>>
    \o (IF date.d >= 10 THEN <<Digit(date.d \div 10)>> ELSE <<>>)
    \o <<Digit(date.d % 10)>>

\* datetime.strftime("%Y-%m-%d")
strftime(date) ==
    <<Digit(date.y \div 1000), Digit((date.y \div 100) % 10),
      Digit((date.y \div 10) % 10), Digit(date.y % 10), Dash,
      Digit(date.m \div 10), Digit(date.m % 10), Dash,
      Digit(date.d \div 10), Digit(date.d % 10)>>

\* str < str : lexicographic on character codes
RECURSIVE StrLess(_, _)
StrLess(a, b) ==
    IF b = <<>> THEN FALSE
    ELSE IF a = <<>> THEN TRUE
    ELSE IF Head(a) # Head(b) THEN Head(a) < Head(b)
    ELSE StrLess(Tail(a), Tail(b))

\* RAW_DATA_DIR.glob(f"{type}_*.json")
glob(raw, type) == {f \in raw : f.type = type}

\* sorted(files, reverse=True)[0]: the file whose name sorts last
LatestFile(files) ==
    CHOOSE f \in files :
        \A other \in files : ~StrLess(strftime(f.date), strftime(other.date))

\* collect_data.save_data: open(file_path, 'w') replaces a file of that name
save_data(raw, content, filename, day) ==
    {f \in raw : ~(f.type = filename /\ f.date = day)}
        \cup {[type |-> filename, date |-> day, content |-> content]}

market_names == <<"S&P500", "NASDAQ", "FTSE100">>

\* market_name.lower()
Lower(name) ==
    CASE name = "S&P500"  -> "s&p500"
      [] name = "NASDAQ"  -> "nasdaq"
      [] name = "FTSE100" -> "ftse100"

legacy_data_types == <<"indices", "tech_stocks", "finance_stocks", "energy_stocks">>

other_data_types ==
    <<"forex", "bonds", "news", "trends", "crypto", "fred", "alpha_vantage",
      "finnhub_quotes", "finnhub_company", "finnhub_sentiment",
      "finnhub_earnings", "finnhub_insider">>

IndexType(name) == "index_" \o Lower(name)

StocksType(name) == "stocks_" \o Lower(name)

\* lines 66-112: the markets whose latest index and stocks files both load
RECURSIVE LoadMarkets(_, _, _)
LoadMarkets(raw, names, acc) ==
    IF names = <<>> THEN acc
    ELSE LET index_files  == glob(raw, IndexType(Head(names)))
             stocks_files == glob(raw, StocksType(Head(names)))
             index_data   == LatestFile(index_files).content
             stocks_data  == LatestFile(stocks_files).content
         IN  LoadMarkets(raw, Tail(names),
                 IF /\ index_files # {} /\ stocks_files # {}
                    /\ index_data.json # "invalid" /\ stocks_data.json # "invalid"
                 THEN Put(acc, Head(names),
                          [index |-> index_data, stocks |-> stocks_data])
                 ELSE acc)

\* lines 121-133 and 142-174: the latest file of each type that loads
RECURSIVE LoadTypes(_, _, _)
LoadTypes(raw, types, acc) ==
    IF types = <<>> THEN acc
    ELSE LET files == glob(raw, Head(types))
         IN  LoadTypes(raw, Tail(types),
                 IF files # {} /\ LatestFile(files).content.json # "invalid"
                 THEN Put(acc, Head(types), LatestFile(files).content)
                 ELSE acc)

load_data(raw) ==
    LET mks == LoadMarkets(raw, market_names, <<>>)
        legacy == IF mks = <<>> THEN LoadTypes(raw, legacy_data_types, <<>>)
                  ELSE <<>>
    IN  [markets |-> mks, data |-> LoadTypes(raw, other_data_types, legacy)]

\* DataAnalyzer.save_ideas: the processed directory is a dict date -> output
save_ideas(processed, ideas, markets, day) ==
    Put(processed, strftime(day),
        [date |-> strftime(day), ideas |-> ideas,
         markets_analyzed |-> IF markets # <<>> THEN Keys(markets)
                              ELSE <<"Legacy format">>])

-----------------------------------------------------------------------------
(* collect_data.generate_mock_stock_history                                 *)
(* Python's random module is one generator per process, seeded from system  *)
(* entropy when the module is imported and never re-seeded by the program:  *)
(* its state is any value 0..RngModulus-1 at process start and moves on     *)
(* with every draw.  Prices are in cents; a daily change is in half         *)
(* percents; a day is a day number (Ordinal).  Open, High and Low are       *)
(* fixed multiples of Close and are left out.                               *)

RngModulus == 8        \* number of generator states of the model

MockDays == 30         \* for i in range(30)
TrendStart == 20       \* if i > 20

NextRng(s) == (5 * s + 3) % RngModulus

\* random.uniform(-0.02, 0.02), drawn in state s: -2% .. +2% in five steps
uniform(s) == ((s % 5) - 2) * 2

\* random.randint(1000000, 10000000), drawn in state s
randint(s) == 1000000 + (s % 4) * 3000000

\* int(hashlib.md5(ticker.encode()).hexdigest(), 16) % 100
ticker_hash(ticker) ==
    CASE ticker = "AAPL"   -> 10
      [] ticker = "MSFT"   -> 50
      [] ticker = "GOOGL"  -> 91
      [] ticker = "JPM"    -> 43
      [] ticker = "AZN.L"  -> 4
      [] ticker = "SHEL.L" -> 8
      [] ticker = "HSBA.L" -> 63
      [] ticker = "^GSPC"  -> 50
      [] ticker = "^IXIC"  -> 35
      [] ticker = "^FTSE"  -> 22

\* base_price = 100.0 + ticker_hash, whatever the generator state s
StartPrice(ticker, s) == (100 + ticker_hash(ticker)) * 100

\* the daily change applied on day i (0-based), drawn in state s
DailyChange(i, s) ==
    IF i > TrendStart THEN (Abs(uniform(s)) * 3) \div 2 ELSE uniform(s)

\* mutant: the bars are dated from today on
MockDate_FromToday(now, i) == now + i

\* datetime.now() - timedelta(days=30-i)
MockDate(now, i) == now - (MockDays - i)

\* the loop of lines 748-772 from day i on; s is the generator state
RECURSIVE MockBars(_, _, _, _, _)
MockBars(i, base_price, now, s, history) ==
    IF i >= MockDays THEN [history |-> history, rng |-> s]
    ELSE MockBars(i + 1, (base_price * (200 + DailyChange(i, s))) \div 200, now,
                  NextRng(NextRng(s)),
                  Append(history,
                         [Date   |-> MockDate(now, i),
                          Close  |-> (base_price * (200 + DailyChange(i, s))) \div 200,
                          Volume |-> randint(NextRng(s))]))

\* returns the history and the generator state it leaves behind
generate_mock_stock_history(ticker, now, s) ==
    MockBars(0, StartPrice(ticker, s), now, s, <<>>)

-----------------------------------------------------------------------------
(* Bounded inputs of the pure-function specification *)

Perms(n) ==
    {f \in [1..n -> 1..n] : \A i, j \in 1..n : i # j => f[i] # f[j]}

\* every series of n <= MaxLen bars, in every input order, dates 1..n
SmallSeries ==
    UNION {{[i \in 1..n |-> Bar(dts[i], cl[i])] :
              dts \in Perms(n), cl \in [1..n -> 1..MaxClose]} : n \in 0..MaxLen}

\* the scenario of the specification: closes 100,102,101,105,103,107,110
ScenarioCloses == <<100, 102, 101, 105, 103, 107, 110>>

ScenarioSeries == [i \in 1..7 |-> Bar(i, ScenarioCloses[i])]

\* the same bars handed over newest first
ScenarioReversed == [i \in 1..7 |-> Bar(8 - i, ScenarioCloses[8 - i])]

FirstItems ==
    {Wrapped(h, "Technology") : h \in SmallSeries}
        \cup {Wrapped(ScenarioSeries, "Technology"), NoHistory}
        \cup {BareList(h) : h \in {ScenarioSeries}}

SecondItems ==
    {Wrapped(<<Bar(1, 2)>>, "Finance"),
     Wrapped(<<Bar(2, 1), Bar(1, 3), Bar(3, 2)>>, "Finance"),
     Wrapped(ScenarioReversed, "Finance")}

Snapshot(items) == [json |-> "dict", items |-> items]

\* processes that do not exist in a specification stay as constructed
PerfIdle ==
    /\ stock_data = Snapshot(<<>>) /\ period = DefaultPeriod
    /\ performance = [raised |-> FALSE, perf |-> <<>>] /\ pcPerf = "idle"

DirIdle == RAW_DATA_DIR = {} /\ TODAY = [y |-> 2025, m |-> 1, d |-> 1]

RunIdle ==
    /\ self_markets = <<>> /\ self_data = <<>> /\ self_ideas = <<>>
    /\ evaluated = <<>> /\ pc = "idle"

AnalyzerIdle == RunIdle /\ PROCESSED_DATA_DIR = <<>>

InvocationsIdle ==
    /\ mock_ticker = "" /\ first_history = <<>> /\ second_history = <<>>
    /\ pcMock = "idle"

MockIdle == rng = 0 /\ InvocationsIdle

CollectIdle ==
    /\ services = <<>> /\ all_failed_items = <<>> /\ markets_processed = 0
    /\ cpc = "idle"

CloudIdle ==
    /\ cloud_env = <<>> /\ bucket = {} /\ pending = {} /\ result = "None"
    /\ local_before = <<>> /\ pcCloud = "idle"

StoreIdle ==
    /\ last_written = <<>> /\ runs = 0 /\ loaded = <<>> /\ pcStore = "idle"

FnIdle ==
    /\ indicators = [raised |-> FALSE, ind |-> <<>>]
    /\ finnhub_analysis = [raised |-> FALSE, fh |-> <<>>]
    /\ pcFn = "idle"

SeriesIdle == in_memory = <<>> /\ created = <<>> /\ pcSeries = "idle"

FetchIdle == fetch_tickers = <<>> /\ fetch_returned = <<>> /\ pcFetch = "idle"

InitPerf ==
    /\ \E a \in FirstItems, b \in SecondItems :
          stock_data = Snapshot(<<Pair("AAPL", a), Pair("JPM", b)>>)
    /\ period \in (1..MaxPeriod) \cup {DefaultPeriod}
    /\ performance = [raised |-> FALSE, perf |-> <<>>]
    /\ pcPerf = "init"
    /\ DirIdle /\ AnalyzerIdle /\ MockIdle /\ CollectIdle /\ CloudIdle /\ StoreIdle
    /\ FnIdle /\ SeriesIdle /\ FetchIdle

CallPerformance ==
    /\ pcPerf = "init"
    /\ performance' = analyze_stock_performance(stock_data, period)
    /\ pcPerf' = "done"
    /\ UNCHANGED <<stock_data, period>>
    /\ UNCHANGED outsidePerf

NextPerf == CallPerformance

SpecPerf == InitPerf /\ [][NextPerf]_vars

-----------------------------------------------------------------------------
(* A run of the analyzer (analyze_data.main) over a raw data directory      *)

\* series of n daily bars, oldest first
Closes(shape, i, n) ==
    CASE shape = "up"   -> 100 + i
      [] shape = "down" -> 200 - i
      [] shape = "flat" -> 100
      [] shape = "zig"  -> 100 + 2 * (i % 2)
      [] shape = "jump" -> IF i = n THEN 110 ELSE 100

LongSeries(n, shape) == [i \in 1..n |-> Bar(i, Closes(shape, i, n))]

Week == DefaultPeriod
AlmostEnough == MinBarsForIndicators - 1
Enough == MinBarsForIndicators

JsonList == [json |-> "list", items |-> <<>>]
Invalid == [json |-> "invalid", items |-> <<>>]

InfoNull(h) ==
    [kind |-> "dict", hasHistory |-> TRUE, history |-> h, barsOk |-> TRUE,
     info |-> "null", sector |-> ""]

RunDay == [y |-> 2025, m |-> 10, d |-> 1]

\* day number of a date, the scale of the earnings periods
Ordinal(date) == (date.y * 12 + date.m) * 31 + date.d

\* contents found in index_s&p500_*.json
IndexContents ==
    {Snapshot(<<Pair("^GSPC", Wrapped(LongSeries(Week, "up"), "Index"))>>),
     Snapshot(<<Pair("^GSPC", Wrapped(LongSeries(3, "up"), "Index"))>>),
     JsonList, Invalid}

\* contents found in stocks_s&p500_*.json
StocksContents ==
    {Snapshot(<<Pair("AAPL", Wrapped(LongSeries(AlmostEnough, "jump"), "Technology")),
                Pair("MSFT", Wrapped(LongSeries(Enough + 1, "up"), "Technology"))>>),
     Snapshot(<<Pair("AAPL", Wrapped(LongSeries(Enough, "jump"), "Technology")),
                Pair("JPM", Wrapped(LongSeries(Week, "down"), "Financial Services"))>>),
     Snapshot(<<Pair("AAPL", Wrapped(LongSeries(Enough, "flat"), "Unknown")),
                Pair("MSFT", Wrapped(LongSeries(3, "up"), "Technology"))>>),
     Snapshot(<<Pair("AAPL", Wrapped(LongSeries(Week, "zig"), "Technology")),
                Pair("JPM", NumberItem)>>),
     Snapshot(<<Pair("AAPL", Wrapped(LongSeries(Week, "up"), "Technology")),
                Pair("MSFT", InfoNull(LongSeries(3, "up")))>>),
     Snapshot(<<>>), JsonList, Invalid}

\* contents found in index_nasdaq_*.json and stocks_nasdaq_*.json
NasdaqContents ==
    <<Snapshot(<<Pair("^IXIC", Wrapped(LongSeries(Week, "up"), "Index"))>>),
      Snapshot(<<Pair("MSFT", Wrapped(LongSeries(Week, "jump"), "Technology")),
                 Pair("GOOGL", Wrapped(LongSeries(Week, "up"),
                                       "Communication Services"))>>)>>

\* a week of bars that opens at first and stays at last from the second day
MoveSeries(first, last) ==
    [i \in 1..Week |-> Bar(i, IF i = 1 THEN first ELSE last)]

\* contents found in forex_*.json: moves of 10, 0.5, -1.5, 1 and -1 per cent
ForexContents ==
    {Snapshot(<<Pair("EURUSD=X", BareList(LongSeries(Week, "jump")))>>),
     Snapshot(<<Pair("EURUSD=X", Wrapped(LongSeries(Week, "up"), "")),
                Pair("GBPUSD=X", Wrapped(LongSeries(Week, "jump"), ""))>>),
     Snapshot(<<Pair("EURUSD=X", Wrapped(MoveSeries(200, 201), ""))>>),
     Snapshot(<<Pair("USDJPY=X", Wrapped(MoveSeries(200, 197), ""))>>),
     Snapshot(<<Pair("USDJPY=X", Wrapped(MoveSeries(200, 197), "")),
                Pair("EURUSD=X", Wrapped(MoveSeries(200, 201), ""))>>),
     Snapshot(<<Pair("EURUSD=X", Wrapped(MoveSeries(100, 101), "")),
                Pair("GBPUSD=X", Wrapped(MoveSeries(100, 99), ""))>>),
     JsonList}

BondContents ==
    {Snapshot(<<Pair("^TNX", BareList(LongSeries(Week, "jump")))>>),
     Snapshot(<<Pair("^TNX", Wrapped(LongSeries(Week, "jump"), ""))>>),
     Snapshot(<<Pair("^TNX", NumberItem)>>)}

Report(p, sp) == [period |-> p, surprisePercent |-> sp]

Tx(c) == [change |-> c]

Quote == [kind |-> "dict"]

\* the four finnhub snapshots found together: <<quotes, sentiment, earnings, insider>>
FinnhubContents ==
    {<<Snapshot(<<Pair("AAPL", Quote), Pair("NVDA", Quote)>>),
       Snapshot(<<>>),
       Snapshot(<<Pair("AAPL", <<Report(Ordinal(RunDay) + 9, Int2Num(12))>>),
                  Pair("NVDA", <<Report(Ordinal(RunDay) - 40, Int2Num(8))>>)>>),
       Snapshot(<<Pair("AAPL", <<Tx(Int2Num(5)), Tx(Int2Num(7)), Tx(Int2Num(1))>>),
                  Pair("NVDA", <<Tx(Int2Num(4)), Tx(Int2Num(2)), Tx(Int2Num(3)),
                                 Tx(Int2Num(-6))>>)>>)>>,
     <<Snapshot(<<Pair("NVDA", Quote), Pair("TSLA", Quote)>>),
       Snapshot(<<Pair("TSLA", [news_score |-> 9, buzz |-> 12])>>),
       Snapshot(<<Pair("NVDA", <<Report(Ordinal(RunDay) - 40, NoneVal)>>)>>),
       Snapshot(<<Pair("NVDA", <<Tx(Int2Num(4)), Tx(Int2Num(2)), Tx(Int2Num(3))>>),
                  Pair("TSLA", <<Tx(NoneVal)>>)>>)>>,
     <<Snapshot(<<Pair("AAPL", Quote), Pair("NVDA", Quote)>>),
       Snapshot(<<>>),
       Snapshot(<<>>),
       Snapshot(<<Pair("AAPL", <<Tx(Int2Num(5)), Tx(Int2Num(7)), Tx(Int2Num(1))>>),
                  Pair("NVDA", <<Tx(Int2Num(4)), Tx(Int2Num(2)), Tx(Int2Num(3))>>)>>)>>,
     <<JsonList, Snapshot(<<>>), Snapshot(<<>>), Snapshot(<<>>)>>}

File(type, content) == [type |-> type, date |-> RunDay, content |-> content]

Optional(S) == {{}} \cup {{x} : x \in S}

InitAnalyzer ==
    /\ \E ix \in Optional(IndexContents), st \in Optional(StocksContents),
          fx \in Optional(ForexContents), bd \in Optional(BondContents),
          fh \in Optional(FinnhubContents), nd \in Optional({NasdaqContents}) :
          RAW_DATA_DIR =
              {File("index_s&p500", c) : c \in ix}
              \cup {File("stocks_s&p500", c) : c \in st}
              \cup UNION {{File("index_nasdaq", c[1]), File("stocks_nasdaq", c[2])}
                             : c \in nd}
              \cup {File("forex", c) : c \in fx}
              \cup {File("bonds", c) : c \in bd}
              \cup UNION {{File(RequiredFinnhub[i], c[i]) : i \in 1..4} : c \in fh}
    /\ TODAY = RunDay
    /\ self_markets = <<>> /\ self_data = <<>> /\ self_ideas = <<>>
    /\ evaluated = <<>> /\ PROCESSED_DATA_DIR = <<>>
    /\ pc = "start"
    /\ PerfIdle /\ MockIdle /\ CollectIdle /\ CloudIdle /\ StoreIdle
    /\ FnIdle /\ SeriesIdle /\ FetchIdle

\* analyzer.load_data()
Load ==
    /\ pc = "start"
    /\ self_markets' = load_data(RAW_DATA_DIR).markets
    /\ self_data' = load_data(RAW_DATA_DIR).data
    /\ pc' = "loaded"
    /\ UNCHANGED <<RAW_DATA_DIR, TODAY, self_ideas, evaluated, PROCESSED_DATA_DIR>>
    /\ UNCHANGED outsideAnalyzer

\* the orders in which a set of tickers can be iterated
Orders(d) ==
    {[i \in 1..Len(d) |-> d[f[i]].k] : f \in Perms(Len(d))}

TickerOrders(dt) ==
    IF Has(dt, "finnhub_quotes") /\ Get(dt, "finnhub_quotes").json = "dict"
    THEN Orders(Get(dt, "finnhub_quotes").items)
    ELSE {<<>>}

\* analyzer.generate_investment_ideas(): an exception leaves main
Generate ==
    /\ pc = "loaded"
    /\ \E order \in TickerOrders(self_data) :
          LET g == generate_investment_ideas(self_markets, self_data, order,
                                             Ordinal(TODAY))
          IN  /\ evaluated' = g.evaluated
              /\ self_ideas' = IF g.raised THEN self_ideas ELSE g.ideas
              /\ pc' = IF g.raised THEN "crashed" ELSE "generated"
    /\ UNCHANGED <<RAW_DATA_DIR, TODAY, self_markets, self_data, PROCESSED_DATA_DIR>>
    /\ UNCHANGED outsideAnalyzer

\* analyzer.save_ideas()
Save ==
    /\ pc = "generated"
    /\ PROCESSED_DATA_DIR' =
          save_ideas(PROCESSED_DATA_DIR, self_ideas, self_markets, TODAY)
    /\ pc' = "saved"
    /\ UNCHANGED <<RAW_DATA_DIR, TODAY, self_markets, self_data, self_ideas, evaluated>>
    /\ UNCHANGED outsideAnalyzer

Next == Load \/ Generate \/ Save

Spec == InitAnalyzer /\ [][Next]_vars

-----------------------------------------------------------------------------
(* analyze_technical_indicators applied to bounded inputs: series of 20 or  *)
(* 22 bars that follow a shape and end with MaxSteps free daily moves       *)

MaxSteps == 4     \* free daily moves at the end of a series

TechLengths == {MinBarsForIndicators, MinBarsForIndicators + 2}

TechShapes == {"flat", "up", "down", "step"}

ShapeClose(shape, i) ==
    CASE shape = "flat" -> 100
      [] shape = "up"   -> 100 + i
      [] shape = "down" -> 200 - i
      [] shape = "step" -> IF i <= 2 THEN 90 ELSE 100

RECURSIVE SumMoves(_, _)
SumMoves(moves, k) == IF k = 0 THEN 0 ELSE moves[k] + SumMoves(moves, k - 1)

\* close of bar i of n: the shape up to bar n - MaxSteps, then the moves
WalkClose(shape, moves, i, n) ==
    IF i <= n - MaxSteps THEN ShapeClose(shape, i)
    ELSE ShapeClose(shape, n - MaxSteps) + SumMoves(moves, i - (n - MaxSteps))

\* the bars oldest first, or newest first when reversed
WalkSeries(shape, moves, n, reversed) ==
    [i \in 1..n |->
        IF reversed THEN Bar(n + 1 - i, WalkClose(shape, moves, n + 1 - i, n))
        ELSE Bar(i, WalkClose(shape, moves, i, n))]

InitTech ==
    /\ \E shape \in TechShapes, moves \in [1..MaxSteps -> {-1, 0, 1}],
          n \in TechLengths, reversed \in BOOLEAN :
          stock_data =
              Snapshot(<<Pair("AAPL", Wrapped(WalkSeries(shape, moves, n, reversed),
                                              "Technology")),
                         Pair("JPM", Wrapped(LongSeries(MinBarsForIndicators - 1, "up"),
                                             "Financial Services"))>>)
    /\ period = DefaultPeriod
    /\ performance = [raised |-> FALSE, perf |-> <<>>] /\ pcPerf = "idle"
    /\ indicators = [raised |-> FALSE, ind |-> <<>>]
    /\ finnhub_analysis = [raised |-> FALSE, fh |-> <<>>]
    /\ pcFn = "init"
    /\ DirIdle /\ AnalyzerIdle /\ MockIdle /\ CollectIdle /\ CloudIdle /\ StoreIdle
    /\ SeriesIdle /\ FetchIdle

CallIndicators ==
    /\ pcFn = "init"
    /\ indicators' = analyze_technical_indicators(stock_data)
    /\ pcFn' = "done"
    /\ UNCHANGED finnhub_analysis
    /\ UNCHANGED outsideFn

NextTech == CallIndicators

SpecTech == InitTech /\ [][NextTech]_vars

-----------------------------------------------------------------------------
(* analyze_finnhub_data applied to bounded inputs.  AAPL and NVDA have a    *)
(* quote; AAPL gets every combination of records, NVDA one of two sets,     *)
(* TSLA has a sentiment record and no quote.                                *)

MaxTx == 2          \* longest exhaustively enumerated transaction list
MaxReports == 2     \* longest exhaustively enumerated earnings list

Today == Ordinal(RunDay)

Lists(S, n) == UNION {[1..k -> S] : k \in 0..n}

\* the first report carries a surprise of 12 %, the later ones of -3 %
Dated(periods) ==
    [i \in 1..Len(periods) |->
        Report(periods[i], Int2Num(IF i = 1 THEN 12 ELSE -3))]

EarningsLists ==
    {Dated(ps) : ps \in Lists({Today - 1, Today, Today + 1}, MaxReports)}
        \cup {Dated(<<Today + 7, Today + 1>>),
              Dated(<<Today - 90, Today - 1, Today + 30, Today + 1>>),
              <<Report(Today - 1, NoneVal)>>,
              <<Report(0, Int2Num(4)), Report(Today + 1, Int2Num(-3))>>}

Changes(cs) == [i \in 1..Len(cs) |-> Tx(Int2Num(cs[i]))]

InsiderLists ==
    {Changes(cs) : cs \in Lists({-2, 0, 3}, MaxTx)}
        \cup {Changes(<<5, 7, -1, 2>>), Changes(<<1, 1, 1, 1, 1, 1>>),
              Changes(<<-1, -1, -1, -1, -1, -1, 4>>), <<Tx(NoneVal)>>}

SentimentRecords ==
    {[news_score |-> 9, buzz |-> 12], [news_score |-> 4, buzz |-> 5]}

\* the items of a snapshot: the record of each ticker that has one
Records(aapl, nvda, tsla) ==
    [i \in 1..Cardinality(aapl) |-> Pair("AAPL", CHOOSE r \in aapl : TRUE)]
        \o [i \in 1..Cardinality(nvda) |-> Pair("NVDA", CHOOSE r \in nvda : TRUE)]
        \o [i \in 1..Cardinality(tsla) |-> Pair("TSLA", CHOOSE r \in tsla : TRUE)]

\* self.data without the data types of the set missing
Without(d, missing) == SelectSeq(d, LAMBDA e : e.k \notin missing)

InitFinnhub ==
    /\ \E s \in Optional(SentimentRecords), e \in Optional(EarningsLists),
          t \in Optional(InsiderLists), rich \in BOOLEAN,
          missing \in {{}, {"finnhub_sentiment"}, {"finnhub_insider"}} :
          self_data =
              Without(
                  <<Pair("finnhub_quotes",
                         Snapshot(Records({Quote}, {Quote}, {}))),
                    Pair("finnhub_sentiment",
                         Snapshot(Records(s, {}, {[news_score |-> 8, buzz |-> 10]}))),
                    Pair("finnhub_earnings",
                         Snapshot(Records(e, IF rich THEN {Dated(<<Today - 1>>)}
                                             ELSE {}, {}))),
                    Pair("finnhub_insider",
                         Snapshot(Records(t, IF rich THEN {Changes(<<3, 3, 3>>)}
                                             ELSE {}, {})))>>,
                  missing)
    /\ TODAY = RunDay /\ RAW_DATA_DIR = {}
    /\ self_markets = <<>> /\ self_ideas = <<>> /\ evaluated = <<>>
    /\ pc = "idle" /\ PROCESSED_DATA_DIR = <<>>
    /\ indicators = [raised |-> FALSE, ind |-> <<>>]
    /\ finnhub_analysis = [raised |-> FALSE, fh |-> <<>>]
    /\ pcFn = "init"
    /\ PerfIdle /\ MockIdle /\ CollectIdle /\ CloudIdle /\ StoreIdle
    /\ SeriesIdle /\ FetchIdle

CallFinnhub ==
    /\ pcFn = "init"
    /\ \E order \in TickerOrders(self_data) :
          finnhub_analysis' = analyze_finnhub_data(self_data, order, Ordinal(TODAY))
    /\ pcFn' = "done"
    /\ UNCHANGED indicators
    /\ UNCHANGED outsideFn

NextFinnhub == CallFinnhub

SpecFinnhub == InitFinnhub /\ [][NextFinnhub]_vars

-----------------------------------------------------------------------------
(* generate_investment_ideas over one loaded market of six stocks.  Each    *)
(* of the first five has a week of bars that ends with a gain of            *)
(* 0..MaxGain, or three bars only; the sixth gains 1 or has three bars.     *)
(* The sectors follow one of a few patterns.                                *)

MaxGain == 2        \* weekly gains of the enumerated stocks are 0..MaxGain

IdeaTickers == <<"AAPL", "MSFT", "GOOGL", "AMZN", "JPM", "XOM">>

\* -1 stands for a stock with too few bars for performance metrics
GainSeries(g) ==
    IF g < 0 THEN LongSeries(3, "up")
    ELSE [i \in 1..Week |-> Bar(i, IF i = Week THEN 100 + g ELSE 100)]

\* "" is an info object without a sector key
SectorPatterns ==
    {<<"Technology", "Technology", "Technology", "Finance", "Finance", "Finance">>,
     <<"Technology", "Finance", "Technology", "Finance", "Technology", "Finance">>,
     <<"Finance", "Technology", "Technology", "Technology", "Technology", "Energy">>,
     <<"", "Technology", "Finance", "", "Technology", "Finance">>}

InitIdeas ==
    /\ \E gains \in [1..Len(IdeaTickers) -> -1..MaxGain], sectors \in SectorPatterns :
          /\ gains[Len(IdeaTickers)] \in {-1, 1}
          /\ self_markets =
              <<Pair("S&P500",
                     [index  |-> Snapshot(<<Pair("^GSPC",
                                     Wrapped(LongSeries(Week, "up"), "Index"))>>),
                      stocks |-> Snapshot([i \in 1..Len(IdeaTickers) |->
                                     Pair(IdeaTickers[i],
                                          Wrapped(GainSeries(gains[i]), sectors[i]))])])>>
    /\ self_data = <<>> /\ self_ideas = <<>> /\ evaluated = <<>>
    /\ pc = "loaded"
    /\ RAW_DATA_DIR = {} /\ TODAY = RunDay /\ PROCESSED_DATA_DIR = <<>>
    /\ PerfIdle /\ MockIdle /\ CollectIdle /\ CloudIdle /\ StoreIdle /\ FnIdle /\ SeriesIdle /\ FetchIdle

NextIdeas == Generate

SpecIdeas == InitIdeas /\ [][NextIdeas]_vars

-----------------------------------------------------------------------------
(* Two invocations of the synthetic generator for one ticker on one day:    *)
(* in one process (AAPL is a stock of both S&P500 and NASDAQ) or in two     *)
(* processes (a rerun of the collector on the same day)                     *)

MockTickers == {"AAPL", "MSFT", "^IXIC"}

RngStates == 0..(RngModulus - 1)

InitMock ==
    /\ rng \in RngStates
    /\ mock_ticker \in MockTickers
    /\ first_history = <<>> /\ second_history = <<>>
    /\ pcMock = "init"
    /\ RAW_DATA_DIR = {} /\ TODAY \in {RunDay, [y |-> 2025, m |-> 10, d |-> 2]}
    /\ PerfIdle /\ AnalyzerIdle /\ CollectIdle /\ CloudIdle /\ StoreIdle
    /\ FnIdle /\ SeriesIdle /\ FetchIdle

FirstInvocation ==
    /\ pcMock = "init"
    /\ first_history' =
          generate_mock_stock_history(mock_ticker, Ordinal(TODAY), rng).history
    /\ rng' = generate_mock_stock_history(mock_ticker, Ordinal(TODAY), rng).rng
    /\ pcMock' = "one"
    /\ UNCHANGED <<mock_ticker, second_history>>
    /\ UNCHANGED outsideMock

\* the collector is started again on the same day: a new process, whose
\* generator is seeded afresh
NewProcess ==
    /\ pcMock = "one"
    /\ rng' \in RngStates
    /\ UNCHANGED mockVars
    /\ UNCHANGED outsideMock

SecondInvocation ==
    /\ pcMock = "one"
    /\ second_history' =
          generate_mock_stock_history(mock_ticker, Ordinal(TODAY), rng).history
    /\ rng' = generate_mock_stock_history(mock_ticker, Ordinal(TODAY), rng).rng
    /\ pcMock' = "both"
    /\ UNCHANGED <<mock_ticker, first_history>>
    /\ UNCHANGED outsideMock

NextMock == FirstInvocation \/ NewProcess \/ SecondInvocation

SpecMock == InitMock /\ [][NextMock]_vars

-----------------------------------------------------------------------------
(* collect_data: the stock and index fetchers.  What the outside world does *)
(* during a run is a record sv with one state per service: "up" answers     *)
(* every item with a well-formed, non-empty payload, "partial" answers only *)
(* the items of PartialItems, "down" answers none (the request raises,      *)
(* the status is not 200, or the payload lacks the expected key).           *)

MaxStocks == 2      \* stocks of each market that a run collects

collect_markets ==
    <<Pair("S&P500",  [index |-> "^GSPC", stocks |-> <<"AAPL", "MSFT", "GOOGL">>]),
      Pair("NASDAQ",  [index |-> "^IXIC", stocks |-> <<"AAPL", "MSFT", "GOOGL">>]),
      Pair("FTSE100", [index |-> "^FTSE", stocks |-> <<"AZN.L", "SHEL.L", "HSBA.L">>])>>

PartialItems ==
    {"^GSPC", "AAPL", "AZN.L", "EURUSD=X", "^TNX", "stock market", "inflation",
     "UNRATE"}

Serves(status, item) ==
    status = "up" \/ (status = "partial" /\ item \in PartialItems)

\* ticker.startswith("^")
startswith_caret(ticker) ==
    ticker \in {"^GSPC", "^IXIC", "^DJI", "^FTSE", "^N225", "^HSI", "^TNX",
                "^TYX", "^FVX", "^IRX"}

\* the keys of index_mapping, the same in both fetchers
index_mapping ==
    {"^GSPC", "^IXIC", "^DJI", "^FTSE", "^N225", "^HSI", "^TNX", "^TYX"}

\* the bars each service answers with: a week of closes that rise 4 per
\* cent (EODHD), fall 2 per cent (Alpaca), rise 2 per cent (Twelve Data) and
\* a yield that rises 10 per cent (FRED)
EodhdHistory == LongSeries(Week, "up")
AlpacaHistory == LongSeries(Week, "down")
TwelveHistory == MoveSeries(100, 102)
FredHistory == LongSeries(Week, "jump")

\* [t for t in tickers if t not in stock_data]
Missing(tickers, fetched) == SelectSeq(tickers, LAMBDA t : ~Has(fetched, t))

\* d.update(e)
RECURSIVE Update(_, _)
Update(d, e) ==
    IF e = <<>> THEN d ELSE Update(Put(d, e[1].k, e[1].v), Tail(e))

\* fetch_eodhd_stock_data: an index without a mapping and a ticker whose
\* answer is not a non-empty list of bars are left out; the function raises
\* nothing (lines 182-308 are inside try)
RECURSIVE EodhdLoop(_, _, _)
EodhdLoop(tickers, status, fetched) ==
    IF tickers = <<>> THEN fetched
    ELSE EodhdLoop(Tail(tickers), status,
             IF startswith_caret(Head(tickers)) /\ Head(tickers) \notin index_mapping
             THEN fetched
             ELSE IF Serves(status, Head(tickers))
             THEN Put(fetched, Head(tickers), Wrapped(EodhdHistory, "Unknown"))
             ELSE fetched)

fetch_eodhd_stock_data(tickers, status) == EodhdLoop(tickers, status, <<>>)

\* create_mock_index_info(ticker)["sector"]
create_mock_index_info(ticker) == "Index"

\* create_mock_stock_info(ticker)["sector"]
create_mock_stock_info(ticker) ==
    IF ticker \in {"JPM", "BAC", "WFC", "C", "GS", "MS", "BLK"} THEN "Finance"
    ELSE IF ticker \in {"XOM", "CVX", "BP", "SHEL", "TTE", "COP"} THEN "Energy"
    ELSE "Technology"

\* fetch_alpaca_stock_data, lines 1048-1117: all_data holds the tickers the
\* bars request answered; a mapped index or a regular ticker that is not in
\* all_data gets mock info and a mock history, drawn from the generator
\* state s.  The company details answer is not modelled: info.sector is
\* "Unknown", as when the details request fails.
RECURSIVE AlpacaLoop(_, _, _, _, _)
RECURSIVE AlpacaMock(_, _, _, _, _, _)
AlpacaMock(tickers, status, now, m, fetched, sector) ==
    AlpacaLoop(Tail(tickers), status, now, m.rng,
               Put(fetched, Head(tickers), Wrapped(m.history, sector)))

AlpacaLoop(tickers, status, now, s, fetched) ==
    IF tickers = <<>> THEN [data |-> fetched, rng |-> s]
    ELSE IF startswith_caret(Head(tickers)) /\ Head(tickers) \in index_mapping
    THEN IF Serves(status, Head(tickers))
         THEN AlpacaLoop(Tail(tickers), status, now, s,
                  Put(fetched, Head(tickers), Wrapped(AlpacaHistory, "Index")))
         ELSE AlpacaMock(tickers, status, now,
                  generate_mock_stock_history(Head(tickers), now, s),
                  fetched, create_mock_index_info(Head(tickers)))
    ELSE IF ~startswith_caret(Head(tickers))
    THEN IF Serves(status, Head(tickers))
         THEN AlpacaLoop(Tail(tickers), status, now, s,
                  Put(fetched, Head(tickers), Wrapped(AlpacaHistory, "Unknown")))
         ELSE AlpacaMock(tickers, status, now,
                  generate_mock_stock_history(Head(tickers), now, s),
                  fetched, create_mock_stock_info(Head(tickers)))
    ELSE AlpacaLoop(Tail(tickers), status, now, s, fetched)

fetch_alpaca_stock_data(tickers, status, now, s) ==
    AlpacaLoop(tickers, status, now, s, <<>>)

\* fetch_stock_data, lines 550-669: Twelve Data for each ticker still missing
RECURSIVE TwelveLoop(_, _, _)
TwelveLoop(missing_tickers, status, fetched) ==
    IF missing_tickers = <<>> THEN fetched
    ELSE TwelveLoop(Tail(missing_tickers), status,
             IF Serves(status, Head(missing_tickers))
             THEN Put(fetched, Head(missing_tickers),
                      Wrapped(TwelveHistory, "Unknown"))
             ELSE fetched)

\* lines 534-548 and the fallback loop; a is what fetch_alpaca_stock_data
\* returned, asked the tickers it was called with and merged is stock_data
\* after the update.  The loop of line 552 sends one request for each
\* ticker of missing_tickers.
TwelveStage(tickers, sv, merged, a, asked) ==
    [data   |-> TwelveLoop(Missing(tickers, merged), sv.twelve, merged),
     rng    |-> a.rng,
     alpaca |-> asked,
     alpaca_data |-> a.data,
     twelve |-> Missing(tickers, merged)]

\* mutant: the update lets the entries already in stock_data go
AlpacaStage_Replaces(tickers, sv, fetched, a, asked) ==
    TwelveStage(tickers, sv, a.data, a, asked)

AlpacaStage(tickers, sv, fetched, a, asked) ==
    TwelveStage(tickers, sv, Update(fetched, a.data), a, asked)

\* lines 518-532; fetched is what fetch_eodhd_stock_data returned
EodhdStage(tickers, sv, now, s, fetched) ==
    IF Missing(tickers, fetched) = <<>>
    THEN [data |-> fetched, rng |-> s, alpaca |-> <<>>, alpaca_data |-> <<>>,
          twelve |-> <<>>]
    ELSE AlpacaStage(tickers, sv, fetched,
             fetch_alpaca_stock_data(Missing(tickers, fetched), sv.alpaca, now, s),
             Missing(tickers, fetched))

\* returns the dict and the generator state left behind, with the tickers
\* that Alpaca and Twelve Data were asked for and what Alpaca returned
fetch_stock_data(tickers, sv, now, s) ==
    EodhdStage(tickers, sv, now, s, fetch_eodhd_stock_data(tickers, sv.eodhd))

-----------------------------------------------------------------------------
(* collect_data: the other fetchers.  None of them has a fallback source.   *)

\* mutant: each pair is stored as {"history": [...]}, the shape of a stock
RECURSIVE ForexLoop_Wrapped(_, _, _)
ForexLoop_Wrapped(pairs, status, forex_data) ==
    IF pairs = <<>> THEN forex_data
    ELSE ForexLoop_Wrapped(Tail(pairs), status,
             IF Serves(status, Head(pairs))
             THEN Put(forex_data, Head(pairs), Wrapped(TwelveHistory, ""))
             ELSE forex_data)

\* fetch_forex_data: Twelve Data; every configured pair ends with "=X"
RECURSIVE ForexLoop(_, _, _)
ForexLoop(pairs, status, forex_data) ==
    IF pairs = <<>> THEN forex_data
    ELSE ForexLoop(Tail(pairs), status,
             IF Serves(status, Head(pairs))
             THEN Put(forex_data, Head(pairs), BareList(TwelveHistory))
             ELSE forex_data)

fetch_forex_data(pairs, status) == ForexLoop(pairs, status, <<>>)

\* the keys of ticker_to_fred
ticker_to_fred == {"^TNX", "^TYX", "^FVX", "^IRX"}

\* fetch_bond_data: FRED observations
RECURSIVE BondLoop(_, _, _)
BondLoop(tickers, status, bond_data) ==
    IF tickers = <<>> THEN bond_data
    ELSE BondLoop(Tail(tickers), status,
             IF Head(tickers) \in ticker_to_fred /\ Serves(status, Head(tickers))
             THEN Put(bond_data, Head(tickers), BareList(FredHistory))
             ELSE bond_data)

fetch_bond_data(tickers, status) == BondLoop(tickers, status, <<>>)

\* fetch_news_data: a query whose request raises gets an error placeholder
RECURSIVE NewsLoop(_, _, _)
NewsLoop(queries, status, news_data) ==
    IF queries = <<>> THEN news_data
    ELSE NewsLoop(Tail(queries), status,
             Put(news_data, Head(queries),
                 [status |-> IF Serves(status, Head(queries)) THEN "ok"
                             ELSE "error"]))

fetch_news_data(queries, status) == NewsLoop(queries, status, <<>>)

\* fetch_trend_data: a list of records, or the empty dict it started with
fetch_trend_data(status) == IF status = "up" THEN JsonList ELSE Snapshot(<<>>)

\* a loop that stores response.json() under each key the service answers:
\* fetch_fred_data, fetch_alpha_vantage_data
RECURSIVE JsonLoop(_, _, _)
JsonLoop(keys, status, acc) ==
    IF keys = <<>> THEN acc
    ELSE JsonLoop(Tail(keys), status,
             IF Serves(status, Head(keys)) THEN Put(acc, Head(keys), Quote)
             ELSE acc)

fetch_fred_data(series, status) == JsonLoop(series, status, <<>>)

fetch_alpha_vantage_data(symbols, status) == JsonLoop(symbols, status, <<>>)

\* sentiment_data[ticker] of fetch_eodhd_sentiment_data.  The search request
\* "raises", "failed" (status not 200), is "empty" (no news item) or has
\* "news"; without news the real-time quote is asked.  status is what
\* .get("status") returns.
SentimentEntry(ticker, sv) ==
    IF startswith_caret(ticker) /\ ticker \notin index_mapping
    THEN [status |-> "skipped", source |-> "None"]
    ELSE IF sv.search = "raises" THEN [status |-> "error", source |-> "None"]
    ELSE IF sv.search = "news" THEN [status |-> "None", source |-> "search"]
    ELSE IF sv.realtime = "up" THEN [status |-> "None", source |-> "real-time"]
    ELSE [status |-> "no_data", source |-> "None"]

RECURSIVE SentimentLoop(_, _, _)
SentimentLoop(tickers, sv, sentiment_data) ==
    IF tickers = <<>> THEN sentiment_data
    ELSE SentimentLoop(Tail(tickers), sv,
             Put(sentiment_data, Head(tickers), SentimentEntry(Head(tickers), sv)))

fetch_eodhd_sentiment_data(tickers, sv) == SentimentLoop(tickers, sv, <<>>)

\* the finnhub fetchers: the client's answer is stored as it is (an empty
\* object for a symbol finnhub does not know); a symbol whose call raises
\* is left out
RECURSIVE FinnhubFetch(_, _, _)
FinnhubFetch(symbols, status, acc) ==
    IF symbols = <<>> THEN acc
    ELSE FinnhubFetch(Tail(symbols), status,
             IF status = "down" THEN acc
             ELSE Put(acc, Head(symbols),
                      [kind |-> "dict", empty |-> ~Serves(status, Head(symbols))]))

fetch_finnhub_company_data(symbols, status) == FinnhubFetch(symbols, status, <<>>)

-----------------------------------------------------------------------------
(* collect_data.main *)

BatchSize == 5          \* for i in range(0, len(stocks), 5)
AnalysisCount == 2      \* market_data["stocks"][:2]
AlphaCount == 2         \* analysis_symbols[:2]
FinnhubBatch == 3       \* for i in range(0, len(analysis_symbols), 3)

forex_pairs == <<"EURUSD=X", "GBPUSD=X", "USDJPY=X">>
bonds == <<"^TNX", "^TYX">>
news_queries == <<"stock market", "interest rates", "inflation", "federal reserve">>
fred_series == <<"UNRATE", "CPIAUCSL", "FEDFUNDS">>

\* the stocks of a market that the run collects
Stocks(market_data) == FirstN(market_data.stocks, MaxStocks)

\* s[n:]
Drop(s, n) == IF Len(s) <= n THEN <<>> ELSE SubSeq(s, n + 1, Len(s))

\* list(dict.fromkeys(symbols))
RECURSIVE fromkeys(_, _)
fromkeys(symbols, acc) ==
    IF symbols = <<>> THEN acc
    ELSE fromkeys(Tail(symbols),
             IF \E i \in 1..Len(acc) : acc[i] = Head(symbols) THEN acc
             ELSE Append(acc, Head(symbols)))

RECURSIVE ExtendAnalysis(_, _)
ExtendAnalysis(mks, acc) ==
    IF mks = <<>> THEN acc
    ELSE ExtendAnalysis(Tail(mks), acc \o FirstN(mks[1].v.stocks, AnalysisCount))

analysis_symbols == fromkeys(ExtendAnalysis(collect_markets, <<>>), <<>>)

\* the stock batches of one market, lines 1866-1885; b is what
\* fetch_stock_data returned for the first batch of stocks
RECURSIVE BatchLoop(_, _, _, _, _, _)
RECURSIVE BatchStep(_, _, _, _, _, _)
BatchStep(stocks, sv, now, all_stocks_data, failed_stocks, b) ==
    BatchLoop(Drop(stocks, BatchSize), sv, now, b.rng,
              Update(all_stocks_data, b.data),
              failed_stocks \o Missing(FirstN(stocks, BatchSize), b.data))

BatchLoop(stocks, sv, now, s, all_stocks_data, failed_stocks) ==
    IF stocks = <<>>
    THEN [data |-> all_stocks_data, rng |-> s, failed |-> failed_stocks]
    ELSE BatchStep(stocks, sv, now, all_stocks_data, failed_stocks,
                   fetch_stock_data(FirstN(stocks, BatchSize), sv, now, s))

\* query not in news_data or news_data[query].get("status") == "error"
NewsFailed(news_data, query) ==
    ~Has(news_data, query) \/ Get(news_data, query).status = "error"

\* mutant: a symbol without data is not a failure
SentimentFailed_ErrorOnly(sentiment_data, symbol) ==
    \/ ~Has(sentiment_data, symbol)
    \/ Get(sentiment_data, symbol).status \in {"error"}

\* symbol not in eodhd_sentiment_data or its status in ["error", "no_data"]
SentimentFailed(sentiment_data, symbol) ==
    \/ ~Has(sentiment_data, symbol)
    \/ Get(sentiment_data, symbol).status \in {"error", "no_data"}

\* symbol not in batch_company or not batch_company[symbol]
CompanyFailed(batch_company, symbol) ==
    ~Has(batch_company, symbol) \/ Get(batch_company, symbol).empty

\* f"{prefix}{item}" for each item
Prefixed(prefix, items) == [i \in 1..Len(items) |-> prefix \o items[i]]

\* the failed company profiles of the finnhub batches, lines 1997-2011
RECURSIVE CompanyFailures(_, _, _)
CompanyFailures(symbols, status, acc) ==
    IF symbols = <<>> THEN acc
    ELSE CompanyFailures(Drop(symbols, FinnhubBatch), status,
             acc \o Prefixed("Finnhub:",
                     SelectSeq(FirstN(symbols, FinnhubBatch),
                         LAMBDA x : CompanyFailed(
                             fetch_finnhub_company_data(
                                 FirstN(symbols, FinnhubBatch), status), x))))

\* each of the four dicts that the batches update, lines 1991-2022; the
\* quote, company, earnings and insider fetchers are the same loop
RECURSIVE FinnhubBatches(_, _, _)
FinnhubBatches(symbols, status, acc) ==
    IF symbols = <<>> THEN acc
    ELSE FinnhubBatches(Drop(symbols, FinnhubBatch), status,
             Update(acc, FinnhubFetch(FirstN(symbols, FinnhubBatch), status, <<>>)))

\* sum(len(items) for items in all_failed_items.values())
total_failures(failed) ==
    Len(failed.stocks) + Len(failed.indices) + Len(failed.forex)
    + Len(failed.bonds) + Len(failed.news) + Len(failed.sentiment)
    + Len(failed.company_data)

failed_items_summary(failed, day) ==
    [json |-> "dict", date |-> strftime(day),
     total_failures |-> total_failures(failed), failed_items |-> failed]

\* save_data for each <<data, filename>> of a list, in order
RECURSIVE SaveEach(_, _, _)
SaveEach(raw, saves, day) ==
    IF saves = <<>> THEN raw
    ELSE SaveEach(save_data(raw, saves[1][1], saves[1][2], day), Tail(saves), day)

\* all_failed_items after lines 1940-2011
OtherFailures(failed, sv) ==
    [failed EXCEPT
        !.forex = @ \o Missing(forex_pairs, fetch_forex_data(forex_pairs, sv.twelve)),
        !.bonds = @ \o Missing(bonds, fetch_bond_data(bonds, sv.fred)),
        !.news = @ \o SelectSeq(news_queries,
                        LAMBDA q : NewsFailed(fetch_news_data(news_queries, sv.newsapi), q)),
        !.sentiment = @ \o SelectSeq(analysis_symbols,
                        LAMBDA x : SentimentFailed(
                            fetch_eodhd_sentiment_data(analysis_symbols, sv), x)),
        !.company_data = @ \o Prefixed("FRED:",
                                 Missing(fred_series, fetch_fred_data(fred_series, sv.fred)))
                           \o CompanyFailures(analysis_symbols, sv.finnhub, <<>>)]

\* the files written by lines 2030-2051
OtherSaves(failed, sv, day) ==
    <<<<Snapshot(fetch_forex_data(forex_pairs, sv.twelve)), "forex">>,
      <<Snapshot(fetch_bond_data(bonds, sv.fred)), "bonds">>,
      <<Snapshot(fetch_news_data(news_queries, sv.newsapi)), "news">>,
      <<fetch_trend_data(sv.pytrends), "trends">>,
      <<Snapshot(fetch_fred_data(fred_series, sv.fred)), "fred">>,
      <<Snapshot(fetch_alpha_vantage_data(FirstN(analysis_symbols, AlphaCount),
                                          sv.alpha)), "alpha_vantage">>,
      <<Snapshot(fetch_eodhd_sentiment_data(analysis_symbols, sv)), "eodhd_sentiment">>,
      <<Snapshot(FinnhubBatches(analysis_symbols, sv.finnhub, <<>>)), "finnhub_quotes">>,
      <<Snapshot(FinnhubBatches(analysis_symbols, sv.finnhub, <<>>)), "finnhub_company">>,
      <<Snapshot(<<>>), "finnhub_sentiment">>,
      <<Snapshot(FinnhubBatches(analysis_symbols, sv.finnhub, <<>>)), "finnhub_earnings">>,
      <<Snapshot(FinnhubBatches(analysis_symbols, sv.finnhub, <<>>)), "finnhub_insider">>,
      <<failed_items_summary(failed, day), "failed_items">>>>

NoFailures ==
    [stocks |-> <<>>, indices |-> <<>>, forex |-> <<>>, bonds |-> <<>>,
     news |-> <<>>, sentiment |-> <<>>, company_data |-> <<>>]

Statuses == {"up", "partial", "down"}

Seeds == {0, RngModulus - 1}

\* a run of main that starts in an empty raw directory; the two services
\* that no failure list tracks are up or down together
InitCollect ==
    /\ services \in [eodhd : Statuses, alpaca : Statuses, twelve : Statuses,
                     fred : Statuses, newsapi : Statuses, finnhub : Statuses,
                     search : {"news", "empty", "failed", "raises"},
                     realtime : {"up", "down"}, pytrends : {"up", "down"},
                     alpha : {"up", "down"}]
    /\ services.pytrends = services.alpha
    /\ all_failed_items = NoFailures
    /\ markets_processed = 0
    /\ cpc = "markets"
    /\ rng \in Seeds
    /\ RAW_DATA_DIR = {} /\ TODAY = RunDay
    /\ PerfIdle /\ AnalyzerIdle /\ InvocationsIdle /\ CloudIdle /\ StoreIdle
    /\ FnIdle /\ SeriesIdle /\ FetchIdle

\* one iteration of the loop over markets, lines 1842-1889; ix and st are
\* what the index fetch and the stock batches returned
MarketIteration(name, market_data, ix, st) ==
    /\ all_failed_items' =
          [all_failed_items EXCEPT
              !.indices = @ \o Missing(<<market_data.index>>, ix.data),
              !.stocks = @ \o st.failed]
    /\ RAW_DATA_DIR' =
          save_data(save_data(RAW_DATA_DIR, Snapshot(ix.data), IndexType(name), TODAY),
                    Snapshot(st.data), StocksType(name), TODAY)
    /\ rng' = st.rng

StockBatches(name, market_data, ix) ==
    MarketIteration(name, market_data, ix,
        BatchLoop(Stocks(market_data), services, Ordinal(TODAY), ix.rng, <<>>, <<>>))

CollectMarket ==
    /\ cpc = "markets"
    /\ StockBatches(collect_markets[markets_processed + 1].k,
                    collect_markets[markets_processed + 1].v,
                    fetch_stock_data(<<collect_markets[markets_processed + 1].v.index>>,
                                     services, Ordinal(TODAY), rng))
    /\ markets_processed' = markets_processed + 1
    /\ cpc' = IF markets_processed + 1 = Len(collect_markets) THEN "other"
              ELSE "markets"
    /\ UNCHANGED <<services, TODAY>>
    /\ UNCHANGED outsideCollect

\* the rest of main, lines 1891-2062
CollectOther ==
    /\ cpc = "other"
    /\ all_failed_items' = OtherFailures(all_failed_items, services)
    /\ RAW_DATA_DIR' =
          SaveEach(RAW_DATA_DIR,
                   OtherSaves(OtherFailures(all_failed_items, services), services, TODAY),
                   TODAY)
    /\ cpc' = "done"
    /\ UNCHANGED <<services, markets_processed, TODAY, rng>>
    /\ UNCHANGED outsideCollect

NextCollect == CollectMarket \/ CollectOther

SpecCollect == InitCollect /\ [][NextCollect]_vars

-----------------------------------------------------------------------------
(* cloud_functions.update_investment_data.  A cloud path is <<prefix, name>>;*)
(* the name of a raw file is <<type, date text>>, that of a processed file  *)
(* its date text.  An upload raises for the cloud paths in env.failing.     *)
(* collect_module.main() and analyze_module.main() are modelled in full     *)
(* under SpecCollect and Spec; here they are their effect on the two        *)
(* directories: today's files are (re)written, or the analysis raises.      *)

RawName(f) == <<f.type, strftime(f.date)>>

\* blob.upload_from_filename: the object of that path is replaced
upload_from_filename(objects, cloud_path, content) ==
    {o \in objects : o.path # cloud_path}
        \cup {[path |-> cloud_path, content |-> content]}

\* is_running_on_cloud(): the storage library was imported, STORAGE_BUCKET
\* and K_SERVICE are set
is_running_on_cloud(env) ==
    env.GCP_AVAILABLE /\ env.STORAGE_BUCKET /\ env.K_SERVICE

\* mutant: the exception of a failed upload leaves the function
upload_data_to_cloud_Propagates(objects, env, exists, cloud_path, content) ==
    IF ~is_running_on_cloud(env) \/ ~exists
    THEN [ok |-> FALSE, raised |-> FALSE, bucket |-> objects]
    ELSE IF cloud_path \in env.failing
    THEN [ok |-> FALSE, raised |-> TRUE, bucket |-> objects]
    ELSE [ok |-> TRUE, raised |-> FALSE,
          bucket |-> upload_from_filename(objects, cloud_path, content)]

\* upload_data_to_cloud(local_path, cloud_path): [ok, raised, bucket]
upload_data_to_cloud(objects, env, exists, cloud_path, content) ==
    IF ~is_running_on_cloud(env) \/ ~exists
    THEN [ok |-> FALSE, raised |-> FALSE, bucket |-> objects]
    ELSE IF cloud_path \in env.failing
    THEN [ok |-> FALSE, raised |-> FALSE, bucket |-> objects]
    ELSE [ok |-> TRUE, raised |-> FALSE,
          bucket |-> upload_from_filename(objects, cloud_path, content)]

Yesterday == [y |-> 2025, m |-> 9, d |-> 30]

\* the files that collect_module.main() writes, reduced to two types
CollectedTypes == <<"forex", "failed_items">>

Collected(raw, day) ==
    SaveEach(raw,
             [i \in 1..Len(CollectedTypes) |->
                 <<Snapshot(<<Pair("EURUSD=X", BareList(TwelveHistory))>>),
                   CollectedTypes[i]>>],
             day)

\* the cloud paths of a run on RunDay after a run the day before
CloudPaths ==
    {<<"raw", <<CollectedTypes[i], strftime(d)>>>> :
        i \in 1..Len(CollectedTypes), d \in {Yesterday, RunDay}}
    \cup {<<"processed", strftime(d)>> : d \in {Yesterday, RunDay}}

MaxFailing == 2     \* cloud paths whose upload raises

FailingSets == {F \in SUBSET CloudPaths : Cardinality(F) <= MaxFailing}

InitCloud ==
    /\ cloud_env \in [GCP_AVAILABLE : BOOLEAN, STORAGE_BUCKET : BOOLEAN,
                      K_SERVICE : BOOLEAN, failing : FailingSets,
                      collection_raises : BOOLEAN, analysis_raises : BOOLEAN]
    /\ \E before \in BOOLEAN :
          /\ RAW_DATA_DIR = IF before THEN Collected({}, Yesterday) ELSE {}
          /\ PROCESSED_DATA_DIR =
                IF before THEN save_ideas(<<>>, <<>>, <<>>, Yesterday) ELSE <<>>
    /\ bucket = {} /\ pending = {} /\ result = "None"
    /\ local_before = <<>>
    /\ pcCloud = "start"
    /\ TODAY = RunDay
    /\ PerfIdle /\ RunIdle /\ MockIdle /\ CollectIdle /\ StoreIdle
    /\ FnIdle /\ SeriesIdle /\ FetchIdle

\* what collect_module.main() had written when it raised
CollectedPartly(raw, day) ==
    {SaveEach(raw,
              [i \in 1..n |->
                  <<Snapshot(<<Pair("EURUSD=X", BareList(TwelveHistory))>>),
                    CollectedTypes[i]>>],
              day) : n \in 0..(Len(CollectedTypes) - 1)}

\* lines 239-244: collect_module.main(); its exception is caught at line 266
RunCollection ==
    /\ pcCloud = "start"
    /\ IF cloud_env.collection_raises
       THEN /\ RAW_DATA_DIR' \in CollectedPartly(RAW_DATA_DIR, TODAY)
            /\ result' = FALSE /\ pcCloud' = "returned"
       ELSE /\ RAW_DATA_DIR' = Collected(RAW_DATA_DIR, TODAY)
            /\ pcCloud' = "collected"
            /\ UNCHANGED result
    /\ UNCHANGED <<cloud_env, bucket, pending, local_before, PROCESSED_DATA_DIR>>
    /\ UNCHANGED outsideCloud

\* mutant: the uploads start whatever is_running_on_cloud() says
StartUploads_Always(env) == TRUE

\* line 251: if is_running_on_cloud()
StartUploads(env) == is_running_on_cloud(env)

\* lines 246-255: analyze_module.main(), whose exception is caught at line
\* 266, then the test of line 251 and the glob of the first upload loop
RunAnalysis ==
    /\ pcCloud = "collected"
    /\ IF cloud_env.analysis_raises
       THEN /\ result' = FALSE /\ pcCloud' = "returned"
            /\ UNCHANGED <<PROCESSED_DATA_DIR, pending, local_before>>
       ELSE /\ PROCESSED_DATA_DIR' = save_ideas(PROCESSED_DATA_DIR, <<>>, <<>>, TODAY)
            /\ IF StartUploads(cloud_env)
               THEN /\ pcCloud' = "raw"
                    /\ pending' = RAW_DATA_DIR
                    /\ local_before' =
                          <<RAW_DATA_DIR, PROCESSED_DATA_DIR'>>
                    /\ UNCHANGED result
               ELSE /\ result' = TRUE /\ pcCloud' = "returned"
                    /\ UNCHANGED <<pending, local_before>>
    /\ UNCHANGED <<cloud_env, bucket, RAW_DATA_DIR>>
    /\ UNCHANGED outsideCloud

\* what one iteration of an upload loop does with the answer u of
\* upload_data_to_cloud: the return value is ignored, an exception would be
\* caught at line 266
AfterUpload(u, rest, loop) ==
    /\ bucket' = u.bucket
    /\ IF u.raised
       THEN result' = FALSE /\ pcCloud' = "returned" /\ pending' = {}
       ELSE pending' = rest /\ pcCloud' = loop /\ UNCHANGED result

\* lines 255-257, one iteration
UploadRaw ==
    /\ pcCloud = "raw"
    /\ \E f \in pending :
          AfterUpload(upload_data_to_cloud(bucket, cloud_env, f \in RAW_DATA_DIR,
                                           <<"raw", RawName(f)>>, f.content),
                      pending \ {f}, "raw")
    /\ UNCHANGED <<cloud_env, local_before, RAW_DATA_DIR, PROCESSED_DATA_DIR>>
    /\ UNCHANGED outsideCloud

\* line 260: PROCESSED_DATA_DIR.glob("*_*.json")
StartProcessed ==
    /\ pcCloud = "raw" /\ pending = {}
    /\ pending' = KeySet(PROCESSED_DATA_DIR)
    /\ pcCloud' = "processed"
    /\ UNCHANGED <<cloud_env, bucket, result, local_before, RAW_DATA_DIR,
                   PROCESSED_DATA_DIR>>
    /\ UNCHANGED outsideCloud

\* lines 260-262, one iteration
UploadProcessed ==
    /\ pcCloud = "processed"
    /\ \E name \in pending :
          AfterUpload(upload_data_to_cloud(bucket, cloud_env,
                                           Has(PROCESSED_DATA_DIR, name),
                                           <<"processed", name>>,
                                           Get(PROCESSED_DATA_DIR, name)),
                      pending \ {name}, "processed")
    /\ UNCHANGED <<cloud_env, local_before, RAW_DATA_DIR, PROCESSED_DATA_DIR>>
    /\ UNCHANGED outsideCloud

\* lines 264-265
ReturnTrue ==
    /\ pcCloud = "processed" /\ pending = {}
    /\ result' = TRUE
    /\ pcCloud' = "returned"
    /\ UNCHANGED <<cloud_env, bucket, pending, local_before, RAW_DATA_DIR,
                   PROCESSED_DATA_DIR>>
    /\ UNCHANGED outsideCloud

NextCloud ==
    RunCollection \/ RunAnalysis \/ UploadRaw \/ StartProcessed \/ UploadProcessed
        \/ ReturnTrue

SpecCloud == InitCloud /\ [][NextCloud]_vars

-----------------------------------------------------------------------------
(* Collector runs over several days, each in a process of its own, and the  *)
(* analyzer's load_data after them.  What the fetchers put into a file is   *)
(* modelled under SpecCollect; here a content is identified by the run that *)
(* wrote it.                                                                *)

MaxRuns == 3        \* collector runs in a behaviour

\* the days on which a process can start, in calendar order
Days ==
    <<[y |-> 2025, m |-> 9, d |-> 9], [y |-> 2025, m |-> 9, d |-> 30],
      [y |-> 2025, m |-> 10, d |-> 1], [y |-> 2026, m |-> 1, d |-> 2]>>

DayIndex(date) == CHOOSE i \in 1..Len(Days) : Days[i] = date

RECURSIVE MarketTypes(_)
MarketTypes(names) ==
    IF names = <<>> THEN <<>>
    ELSE <<IndexType(Head(names)), StocksType(Head(names))>>
             \o MarketTypes(Tail(names))

\* the file names of the save_data calls of main, lines 1858-2051
main_filenames ==
    MarketTypes(Keys(collect_markets))
    \o <<"forex", "bonds", "news", "trends", "fred", "alpha_vantage",
         "eodhd_sentiment", "finnhub_quotes", "finnhub_company",
         "finnhub_sentiment", "finnhub_earnings", "finnhub_insider",
         "failed_items">>

\* the file names of the save_data calls of test_run, lines 1709-1798
test_filenames ==
    <<"eodhd_stock_test", "eodhd_sentiment_test", "index_s&p500",
      "stocks_s&p500", "index_nasdaq", "stocks_nasdaq", "forex", "bonds",
      "news", "fred", "alpha_vantage", "eodhd_sentiment", "finnhub_quotes",
      "finnhub_company", "finnhub_sentiment", "finnhub_earnings",
      "finnhub_insider">>

WrittenBy(run) == Snapshot(<<Pair("run", run)>>)

Saves(filenames, run) ==
    [i \in 1..Len(filenames) |-> <<WrittenBy(run), filenames[i]>>]

RECURSIVE PutEach(_, _, _)
PutEach(d, keys, val) ==
    IF keys = <<>> THEN d ELSE PutEach(Put(d, Head(keys), val), Tail(keys), val)

InitStore ==
    /\ RAW_DATA_DIR = {}
    /\ TODAY \in {Days[i] : i \in 1..Len(Days)}
    /\ last_written = <<>> /\ runs = 0
    /\ loaded = [markets |-> <<>>, data |-> <<>>]
    /\ pcStore = "ready"
    /\ PerfIdle /\ AnalyzerIdle /\ MockIdle /\ CollectIdle /\ CloudIdle
    /\ FnIdle /\ SeriesIdle /\ FetchIdle

\* a process started on a later day computes a later TODAY
LaterDay ==
    /\ runs < MaxRuns
    /\ \E i \in 1..Len(Days) : DayIndex(TODAY) < i /\ TODAY' = Days[i]
    /\ pcStore' = "ready"
    /\ UNCHANGED <<RAW_DATA_DIR, last_written, runs, loaded>>
    /\ UNCHANGED outsideStore

\* python collect_data.py
MainRun ==
    /\ runs < MaxRuns
    /\ RAW_DATA_DIR' = SaveEach(RAW_DATA_DIR, Saves(main_filenames, runs + 1), TODAY)
    /\ last_written' = PutEach(last_written, main_filenames, WrittenBy(runs + 1))
    /\ runs' = runs + 1
    /\ pcStore' = "ready"
    /\ UNCHANGED <<TODAY, loaded>>
    /\ UNCHANGED outsideStore

\* python collect_data.py --test
TestRun ==
    /\ runs < MaxRuns
    /\ RAW_DATA_DIR' = SaveEach(RAW_DATA_DIR, Saves(test_filenames, runs + 1), TODAY)
    /\ last_written' = PutEach(last_written, test_filenames, WrittenBy(runs + 1))
    /\ runs' = runs + 1
    /\ pcStore' = "ready"
    /\ UNCHANGED <<TODAY, loaded>>
    /\ UNCHANGED outsideStore

\* DataAnalyzer().load_data()
LoadLatest ==
    /\ pcStore = "ready"
    /\ loaded' = load_data(RAW_DATA_DIR)
    /\ pcStore' = "loaded"
    /\ UNCHANGED <<RAW_DATA_DIR, TODAY, last_written, runs>>
    /\ UNCHANGED outsideStore

NextStore == LaterDay \/ MainRun \/ TestRun \/ LoadLatest

SpecStore == InitStore /\ [][NextStore]_vars

-----------------------------------------------------------------------------
(* An instrument series from its creation by the collector to its analysis. *)
(* A bar of a series in memory carries stamp: TRUE when its Date is a       *)
(* datetime object (the Twelve Data stages, lines 587 and 840), FALSE when  *)
(* it is the text of the date (EODHD, Alpaca, the mock generator, and every *)
(* bar read back from a JSON file).                                         *)

Stamped(h, st) ==
    [i \in 1..Len(h) |-> [Date |-> h[i].Date, Close |-> h[i].Close, stamp |-> st]]

\* entry['Date'].strftime("%Y-%m-%d"): the text of the same day
DateText(bar) == [bar EXCEPT !.stamp = FALSE]

\* mutant: the dates of every item are rewritten, bare lists included
CleanItem_EveryItem(item) ==
    [item EXCEPT !.history = [i \in 1..Len(@) |-> DateText(@[i])]]

\* lines 1613-1621 of save_data on one ticker_data, which it changes in place
CleanItem(item) ==
    IF item.kind = "dict" /\ item.hasHistory
    THEN [item EXCEPT !.history = [i \in 1..Len(@) |-> DateText(@[i])]]
    ELSE item

\* the loop of line 1612 over data.items()
CleanDates(data) == [i \in 1..Len(data) |-> Pair(data[i].k, CleanItem(data[i].v))]

\* json.dump(data, f, cls=DataEncoder): every datetime is written as its text
DataEncoder(data) ==
    Snapshot([i \in 1..Len(data) |->
                 Pair(data[i].k,
                      [data[i].v EXCEPT
                          !.history = [j \in 1..Len(@) |-> DateText(@[j])]])])

Reversed(h) == [i \in 1..Len(h) |-> h[Len(h) + 1 - i]]

SeriesChoices ==
    {LongSeries(n, shape) : n \in {3, Week, Enough}, shape \in {"up", "down", "jump"}}
        \cup {Reversed(LongSeries(Week, "up"))}

\* what the collector holds before save_data: a stocks mapping from
\* fetch_stock_data or a forex mapping from fetch_forex_data
CreatedSeries ==
    {[filename |-> "stocks_s&p500",
      data |-> <<Pair("AAPL", Wrapped(Stamped(h, st), "Technology")),
                 Pair("MSFT", Wrapped(Stamped(LongSeries(Week, "zig"), st2),
                                      "Technology"))>>] :
        h \in SeriesChoices, st \in BOOLEAN, st2 \in BOOLEAN}
    \cup {[filename |-> "forex",
           data |-> <<Pair("EURUSD=X", BareList(Stamped(h, TRUE)))>>] :
             h \in SeriesChoices}

InitSeries ==
    /\ in_memory \in CreatedSeries
    /\ created = in_memory
    /\ pcSeries = "created"
    /\ RAW_DATA_DIR = {} /\ TODAY = RunDay
    /\ AnalyzerIdle /\ PerfIdle /\ FnIdle
    /\ MockIdle /\ CollectIdle /\ CloudIdle /\ StoreIdle /\ FetchIdle

\* collect_data.save_data(data, filename)
SaveSeries ==
    /\ pcSeries = "created"
    /\ in_memory' = [in_memory EXCEPT !.data = CleanDates(@)]
    /\ RAW_DATA_DIR' = save_data(RAW_DATA_DIR, DataEncoder(CleanDates(in_memory.data)),
                                 in_memory.filename, TODAY)
    /\ pcSeries' = "saved"
    /\ UNCHANGED <<created, TODAY, performance, indicators>>
    /\ UNCHANGED outsideSeries

\* the analyzer reads the file back: json.load builds a new mapping
LoadSeries ==
    /\ pcSeries = "saved"
    /\ in_memory' = [in_memory EXCEPT
                     !.data = LatestFile(glob(RAW_DATA_DIR, in_memory.filename)).content.items]
    /\ created' = in_memory'
    /\ pcSeries' = "loaded"
    /\ UNCHANGED <<RAW_DATA_DIR, TODAY, performance, indicators>>
    /\ UNCHANGED outsideSeries

\* analyze_stock_performance(series): the frame df is built from the bars
\* (line 195) and indexed and sorted in place (196-198); nothing is assigned
\* to data or to data['history']
PerformanceOfSeries ==
    /\ pcSeries = "loaded"
    /\ performance' = analyze_stock_performance(Snapshot(in_memory.data), DefaultPeriod)
    /\ pcSeries' = "performance"
    /\ UNCHANGED <<in_memory, created, RAW_DATA_DIR, TODAY, indicators>>
    /\ UNCHANGED outsideSeries

\* analyze_technical_indicators(series): the columns of lines 294-314 are
\* added to the frame df
IndicatorsOfSeries ==
    /\ pcSeries = "performance"
    /\ indicators' = analyze_technical_indicators(Snapshot(in_memory.data))
    /\ pcSeries' = "indicators"
    /\ UNCHANGED <<in_memory, created, RAW_DATA_DIR, TODAY, performance>>
    /\ UNCHANGED outsideSeries

NextSeries == SaveSeries \/ LoadSeries \/ PerformanceOfSeries \/ IndicatorsOfSeries

SpecSeries == InitSeries /\ [][NextSeries]_vars

-----------------------------------------------------------------------------
(* Claims about analyze_stock_performance, checked under SpecPerf *)

\* the bars the function sees as the instrument's history: data['history']
HistoryLen(data) ==
    IF data.kind = "dict" /\ data.hasHistory THEN Len(data.history) ELSE 0

AloneResult(ticker, data, p) ==
    analyze_stock_performance(Snapshot(<<Pair(ticker, data)>>), p)

\* C8: analyze_stock_performance(stock_data, period) returns an entry for an
\* instrument if and only if its history has at least period bars; an
\* instrument with fewer bars is omitted without raising, and the entries of
\* the other instruments are what they are when computed without it.
C8_EntryIffEnoughBars ==
    pcPerf = "done" =>
        /\ ~performance.raised
        /\ \A i \in 1..Len(stock_data.items) :
              LET t == stock_data.items[i].k
                  d == stock_data.items[i].v
              IN  /\ Has(performance.perf, t) <=> HistoryLen(d) >= period
                  /\ Has(performance.perf, t) =>
                        Get(performance.perf, t)
                            = Get(AloneResult(t, d, period).perf, t)

\* C8 witness: one instrument is omitted for having too few bars while the
\* other one has its entry.
C8_Witness ==
    /\ pcPerf = "done"
    /\ \E i, j \in 1..Len(stock_data.items) :
          /\ HistoryLen(stock_data.items[i].v) \in 1..(period - 1)
          /\ ~Has(performance.perf, stock_data.items[i].k)
          /\ Has(performance.perf, stock_data.items[j].k)

\* number of bars of h strictly newer than bar i
NewerCount(h, i) == Cardinality({j \in 1..Len(h) : h[j].Date > h[i].Date})

\* close of the bar that has exactly n newer bars (dates are distinct)
CloseWithNewer(h, n) ==
    h[CHOOSE i \in 1..Len(h) : NewerCount(h, i) = n].Close

\* C9: for every series with at least period bars, taken in ascending date
\* order whatever the order of the input bars, 'return' equals
\* (last close - first close) / first close * 100 over the last period bars
\* and is_uptrend holds exactly when the last close is strictly greater than
\* the first close of that slice; closes 100,102,101,105,103,107,110 with
\* period 7 give return 10 and is_uptrend true.
C9_ReturnOverTailSlice ==
    pcPerf = "done" =>
        \A i \in 1..Len(stock_data.items) :
            LET t == stock_data.items[i].k
                h == stock_data.items[i].v.history
            IN  Has(performance.perf, t) =>
                  LET m     == Get(performance.perf, t)
                      first == CloseWithNewer(h, period - 1)
                      last  == CloseWithNewer(h, 0)
                  IN  /\ RatEq(m.return, Rat((last - first) * 100, first))
                      /\ m.is_uptrend <=> last > first
                      /\ ([j \in 1..Len(h) |-> CloseWithNewer(h, Len(h) - j)]
                             = ScenarioCloses /\ period = 7)
                            => RatEq(m.return, Rat(10, 1)) /\ m.is_uptrend

\* C9 witness: the scenario series handed over newest first, window 7, and
\* its entry reports return 10 and an uptrend.
C9_Witness ==
    /\ pcPerf = "done"
    /\ period = 7
    /\ Get(stock_data.items, "JPM").history = ScenarioReversed
    /\ Has(performance.perf, "JPM")
    /\ RatEq(Get(performance.perf, "JPM").return, Rat(10, 1))
    /\ Get(performance.perf, "JPM").is_uptrend

-----------------------------------------------------------------------------
(* Claims about a run of the analyzer, checked under Spec *)

RunEnded == pc \in {"saved", "crashed"}

\* C1: a run of the analyzer (load_data, then generate_investment_ideas, then
\* save_ideas) always ends with an ideas file investment_ideas_{today}.json
\* written, whatever the content of the raw data store.
C1_RunEndsWithIdeasFile ==
    RunEnded => Has(PROCESSED_DATA_DIR, strftime(TODAY))

\* C2: in generate_investment_ideas the rule blocks are isolated: once a rule
\* block has been reached, no exception leaves the method and every later
\* rule block, down to the last one (bond), is still evaluated.
C2_RuleBlocksIsolated ==
    (pc \in {"generated", "saved", "crashed"} /\ evaluated # <<>>) =>
        /\ pc # "crashed"
        /\ evaluated[Len(evaluated)] = <<"bond">>

\* C10: for every series with fewer than 20 bars,
\* analyze_technical_indicators yields no indicator value for that
\* instrument, and any idea generated for that instrument reports its rsi
\* metric as null rather than a number.
C10_NoIndicatorsBelowTwentyBars ==
    pc \in {"loaded", "generated", "saved", "crashed"} =>
        \A i \in 1..Len(self_markets) :
            LET name   == self_markets[i].k
                stocks == self_markets[i].v.stocks
            IN  stocks.json = "dict" =>
                  \A j \in 1..Len(stocks.items) :
                      LET t == stocks.items[j].k
                          d == stocks.items[j].v
                      IN  (d.kind = "dict" /\ HistoryLen(d) < 20) =>
                            /\ ~Has(analyze_technical_indicators(stocks).ind, t)
                            /\ \A n \in 1..Len(self_ideas) :
                                  (/\ self_ideas[n].asset = t
                                   /\ self_ideas[n].market = name
                                   /\ Has(self_ideas[n].metrics, "rsi"))
                                  => Get(self_ideas[n].metrics, "rsi").none

\* C10 witness: the ideas file holds a top-performer idea for an instrument
\* with 19 bars, enough for the 14-row RSI window but fewer than 20, and its
\* rsi metric is null.
C10_Witness ==
    /\ pc = "saved"
    /\ \E n \in 1..Len(self_ideas) :
          /\ self_ideas[n].title.kind = "Top Performer"
          /\ self_ideas[n].asset = "AAPL"
          /\ HistoryLen(Get(Get(self_markets, "S&P500").stocks.items, "AAPL")) = 19
          /\ Get(self_ideas[n].metrics, "rsi").none
          /\ Get(PROCESSED_DATA_DIR, strftime(TODAY)).ideas = self_ideas

-----------------------------------------------------------------------------
(* Claims about the synthetic generator, checked under SpecMock *)

\* C5 as stated: the synthetic generator is deterministically seeded: two
\* invocations for the same ticker on the same day produce the same series
\* of bars.
C5_SameSeries ==
    pcMock = "both" => first_history = second_history

\* C5 as amended: two invocations for the same ticker on the same day
\* produce 30 bars each, dated the same 30 days that end the day before the
\* run, starting from the same ticker-derived price (the first close is
\* within 2% of 100 + md5(ticker) mod 100); closes and volumes are drawn
\* from the process's random generator and need not agree.
C5_SameDatesAndStart ==
    pcMock = "both" =>
        /\ Len(first_history) = 30 /\ Len(second_history) = 30
        /\ \A i \in 1..30 :
              /\ first_history[i].Date = second_history[i].Date
              /\ first_history[i].Date = Ordinal(TODAY) - 31 + i
        /\ \A h \in {first_history, second_history} :
              /\ 100 * h[1].Close >= 98 * (100 + ticker_hash(mock_ticker)) * 100
              /\ 100 * h[1].Close <= 102 * (100 + ticker_hash(mock_ticker)) * 100

\* C5 witness: both invocations are done, the dates agree and the closes of
\* the two series differ.
C5_Witness ==
    /\ pcMock = "both"
    /\ \A i \in 1..30 : first_history[i].Date = second_history[i].Date
    /\ \E i \in 1..30 : first_history[i].Close # second_history[i].Close

-----------------------------------------------------------------------------
(* Claims about the collector, checked under SpecCollect *)

\* the snapshot of a type that the run wrote
Written(type) ==
    (CHOOSE f \in RAW_DATA_DIR : f.type = type /\ f.date = TODAY).content

HasSeries(content, item) ==
    /\ content.json = "dict"
    /\ Has(content.items, item)
    /\ Get(content.items, item).history # <<>>

Listed(category, item) ==
    \E i \in 1..Len(all_failed_items[category]) :
        all_failed_items[category][i] = item

RunDone == cpc = "done"

\* C3: after a run, the index, stocks, forex and bonds snapshots hold a
\* series for every requested item, whatever the services did (the synthetic
\* generator stands in for every source that failed).
C3_SeriesForEveryItem ==
    RunDone =>
        /\ \A i \in 1..Len(collect_markets) :
              /\ HasSeries(Written(IndexType(collect_markets[i].k)),
                           collect_markets[i].v.index)
              /\ \A j \in 1..Len(Stocks(collect_markets[i].v)) :
                    HasSeries(Written(StocksType(collect_markets[i].k)),
                              Stocks(collect_markets[i].v)[j])
        /\ \A i \in 1..Len(forex_pairs) : HasSeries(Written("forex"), forex_pairs[i])
        /\ \A i \in 1..Len(bonds) : HasSeries(Written("bonds"), bonds[i])

\* a source of the sentiment chain delivered: the search had news, or it
\* answered without news and the real-time quote answered
SentimentDelivered ==
    \/ services.search = "news"
    \/ services.search \in {"empty", "failed"} /\ services.realtime = "up"

\* the entries of the failure lists
ListedEntries ==
    UNION {{<<c, all_failed_items[c][i]>> : i \in 1..Len(all_failed_items[c])} :
              c \in DOMAIN all_failed_items}

-----------------------------------------------------------------------------
(* Claims about update_investment_data, checked under SpecCloud *)

UploadsBegan == local_before # <<>>

\* C6: once the uploads of update_investment_data have begun, the local raw
\* and processed files stay as they were whatever upload fails; and when the
\* function has returned, every file whose upload does not fail is in the
\* bucket with its local content and the result is True.
C6_BestEffortSync ==
    UploadsBegan =>
        /\ <<RAW_DATA_DIR, PROCESSED_DATA_DIR>> = local_before
        /\ pcCloud = "returned" =>
              /\ result = TRUE
              /\ \A f \in RAW_DATA_DIR :
                    <<"raw", RawName(f)>> \notin cloud_env.failing =>
                        [path |-> <<"raw", RawName(f)>>, content |-> f.content]
                            \in bucket
              /\ \A i \in 1..Len(PROCESSED_DATA_DIR) :
                    <<"processed", PROCESSED_DATA_DIR[i].k>> \notin cloud_env.failing =>
                        [path |-> <<"processed", PROCESSED_DATA_DIR[i].k>>,
                         content |-> PROCESSED_DATA_DIR[i].v] \in bucket

\* C6 witness: the function returned after the upload of one of today's raw
\* files failed, and files after it in both directories were uploaded.
C6_Witness ==
    /\ pcCloud = "returned" /\ UploadsBegan
    /\ \E f \in RAW_DATA_DIR :
          /\ <<"raw", RawName(f)>> \in cloud_env.failing
          /\ \A o \in bucket : o.path # <<"raw", RawName(f)>>
    /\ \E o \in bucket : o.path[1] = "raw"
    /\ \E o \in bucket : o.path[1] = "processed"
    /\ result = TRUE

-----------------------------------------------------------------------------
(* Claims about the raw directory, checked under SpecStore *)

\* C7: after collector runs on non-decreasing dates, same-day reruns
\* included, load_data holds for every data type exactly the content that
\* the last run writing that type wrote, and for every market whose index
\* and stocks files were written the contents of their last writers.
C7_LoadsLastWritten ==
    pcStore = "loaded" =>
        /\ \A i \in 1..Len(other_data_types) :
              IF Has(last_written, other_data_types[i])
              THEN /\ Has(loaded.data, other_data_types[i])
                   /\ Get(loaded.data, other_data_types[i])
                          = Get(last_written, other_data_types[i])
              ELSE ~Has(loaded.data, other_data_types[i])
        /\ \A i \in 1..Len(market_names) :
              IF /\ Has(last_written, IndexType(market_names[i]))
                 /\ Has(last_written, StocksType(market_names[i]))
              THEN /\ Has(loaded.markets, market_names[i])
                   /\ Get(loaded.markets, market_names[i]).index
                          = Get(last_written, IndexType(market_names[i]))
                   /\ Get(loaded.markets, market_names[i]).stocks
                          = Get(last_written, StocksType(market_names[i]))
              ELSE ~Has(loaded.markets, market_names[i])

\* C7 witness: load_data after three runs, the last two on the same day in
\* October after one in September; the forex file of that day holds the
\* third run's content, and the trends snapshot is older than the forex one
\* because the last run was a test run.
C7_Witness ==
    /\ pcStore = "loaded" /\ runs = 3
    /\ TODAY = [y |-> 2025, m |-> 10, d |-> 1]
    /\ \E f \in RAW_DATA_DIR :
          f.type = "forex" /\ f.date = [y |-> 2025, m |-> 9, d |-> 30]
    /\ Get(loaded.data, "forex") = WrittenBy(3)
    /\ Get(loaded.data, "trends") = WrittenBy(2)
    /\ [type |-> "trends", date |-> TODAY, content |-> WrittenBy(2)] \in RAW_DATA_DIR

-----------------------------------------------------------------------------
(* Claims about analyze_technical_indicators, checked under SpecTech *)

Called == pcFn = "done"

Entry(ticker) == Get(indicators.ind, ticker)

\* C11: every rsi that analyze_technical_indicators reports and that is not
\* None lies between 0 and 100, both included.
C11_RsiWithinBounds ==
    Called =>
        \A i \in 1..Len(indicators.ind) :
            LET rsi == indicators.ind[i].v.rsi
            IN  IsNumber(rsi) => 0 <= rsi.num /\ rsi.num <= 100 * rsi.den

\* the last 14 daily moves of the AAPL series
LastMoves ==
    LET df == sort_index(Get(stock_data.items, "AAPL").history)
    IN  [k \in 1..RsiWindow |->
            df[Len(df) - RsiWindow + k].Close - df[Len(df) - RsiWindow + k - 1].Close]

\* C11 witness: a series whose last 14 moves hold a gain and no loss, with
\* rsi reported as exactly 100.
C11_Witness ==
    /\ Called /\ Has(indicators.ind, "AAPL")
    /\ \A k \in 1..RsiWindow : LastMoves[k] >= 0
    /\ \E k \in 1..RsiWindow : LastMoves[k] > 0
    /\ IsNumber(Entry("AAPL").rsi)
    /\ Entry("AAPL").rsi.num = 100 * Entry("AAPL").rsi.den

\* the last 20 closes of the AAPL series are all equal
ZeroBandWidth ==
    LET df == sort_index(Get(stock_data.items, "AAPL").history)
    IN  \A k \in WindowStart(df, BandWindow)..Len(df) : df[k].Close = df[Len(df)].Close

\* C12: when the last 20 closes are all equal, so that the upper and the
\* lower band coincide, bb_position is None and not the outcome of the
\* division by the zero band width.
C12_ZeroWidthIsNone ==
    Called /\ Has(indicators.ind, "AAPL") /\ ZeroBandWidth =>
        Entry("AAPL").bb_position.none /\ ~Entry("AAPL").bb_position.nan

-----------------------------------------------------------------------------
(* Claims about analyze_finnhub_data, checked under SpecFinnhub *)

\* the records handed to the method, read from self.data
HasRecord(type, ticker) ==
    Has(self_data, type) /\ Has(Get(self_data, type).items, ticker)

RecordOf(type, ticker) == Get(Get(self_data, type).items, ticker)

Buys(txs) == Cardinality({i \in 1..Len(txs) : txs[i].change.num > 0})

Sells(txs) == Cardinality({i \in 1..Len(txs) : txs[i].change.num < 0})

SentimentPresent(t) == HasRecord("finnhub_sentiment", t)

EarningsPresent(t) ==
    /\ HasRecord("finnhub_earnings", t)
    /\ RecordOf("finnhub_earnings", t) # <<>>
    /\ ~RecordOf("finnhub_earnings", t)[1].surprisePercent.none

InsiderPresent(t) ==
    HasRecord("finnhub_insider", t) /\ RecordOf("finnhub_insider", t) # <<>>

\* the components present for a ticker, in tenths of a point
Components(t) ==
    (IF SentimentPresent(t)
     THEN <<RecordOf("finnhub_sentiment", t).news_score
              * Min(10, RecordOf("finnhub_sentiment", t).buzz)>>
     ELSE <<>>)
    \o (IF EarningsPresent(t)
        THEN <<10 * Clamp(RecordOf("finnhub_earnings", t)[1].surprisePercent.num)>>
        ELSE <<>>)
    \o (IF InsiderPresent(t)
        THEN <<10 * Clamp(2 * (Buys(RecordOf("finnhub_insider", t))
                               - Sells(RecordOf("finnhub_insider", t))))>>
        ELSE <<>>)

RECURSIVE SumSeq(_)
SumSeq(q) == IF q = <<>> THEN 0 ELSE Head(q) + SumSeq(Tail(q))

\* the score is the mean of the components present, 0 when there is none
IsMeanOfComponents(score, t) ==
    IF Components(t) = <<>> THEN score.num = 0
    ELSE score.num * 10 * Len(Components(t)) = SumSeq(Components(t)) * score.den

Analyzed(t) == Has(finnhub_analysis.fh, t)

Profile(t) == Get(finnhub_analysis.fh, t)

\* C13: the finnhub_score of every analyzed ticker is the arithmetic mean of
\* those of its sentiment, earnings and insider components that are present,
\* and 0 when none is.
C13_ScoreIsMeanOfPresent ==
    Called =>
        \A i \in 1..Len(finnhub_analysis.fh) :
            IsMeanOfComponents(finnhub_analysis.fh[i].v.finnhub_score,
                               finnhub_analysis.fh[i].k)

\* C13 witness: AAPL scored on exactly two components with a non-zero mean,
\* NVDA analyzed with no component and score 0.
C13_Witness ==
    /\ Called /\ Analyzed("AAPL") /\ Analyzed("NVDA")
    /\ Len(Components("AAPL")) = 2 /\ Profile("AAPL").finnhub_score.num # 0
    /\ Components("NVDA") = <<>> /\ Profile("NVDA").finnhub_score.num = 0

\* C14: buy_count counts the transactions with a positive change, sell_count
\* those with a negative change, zero changes count in neither,
\* net_transactions is their difference and the insider component, the score
\* of a ticker with no other component, is twice the net clamped to [-10, 10].
C14_InsiderCounts ==
    Called =>
        \A i \in 1..Len(finnhub_analysis.fh) :
            LET t == finnhub_analysis.fh[i].k
                a == finnhub_analysis.fh[i].v
            IN  InsiderPresent(t) =>
                    /\ a.hasInsider
                    /\ a.buy_count = Buys(RecordOf("finnhub_insider", t))
                    /\ a.sell_count = Sells(RecordOf("finnhub_insider", t))
                    /\ a.net_transactions = a.buy_count - a.sell_count
                    /\ Len(Components(t)) = 1 =>
                          a.finnhub_score.num
                              = Clamp(2 * a.net_transactions) * a.finnhub_score.den

\* C14 witness: the scenario of three buys and one sell, the only component
\* of AAPL: net 2 and score 4.
C14_Witness ==
    /\ Called /\ Analyzed("AAPL") /\ InsiderPresent("AAPL")
    /\ RecordOf("finnhub_insider", "AAPL") = Changes(<<5, 7, -1, 2>>)
    /\ Len(Components("AAPL")) = 1
    /\ Profile("AAPL").buy_count = 3 /\ Profile("AAPL").sell_count = 1
    /\ Profile("AAPL").net_transactions = 2
    /\ Profile("AAPL").finnhub_score.num = 4 * Profile("AAPL").finnhub_score.den

After(report) == report.period > Ordinal(TODAY)

\* C15: for a non-empty earnings list, upcoming_earnings is the first report
\* in list order dated strictly after the current date, absent when there is
\* none, and latest_earnings is the first element of the list whatever its
\* date.
C15_UpcomingAndLatest ==
    Called =>
        \A i \in 1..Len(finnhub_analysis.fh) :
            LET t == finnhub_analysis.fh[i].k
                a == finnhub_analysis.fh[i].v
                earnings == RecordOf("finnhub_earnings", t)
            IN  HasRecord("finnhub_earnings", t) /\ earnings # <<>> =>
                    /\ a.hasUpcoming <=> \E k \in 1..Len(earnings) : After(earnings[k])
                    /\ a.hasUpcoming =>
                          \E k \in 1..Len(earnings) :
                              /\ After(earnings[k])
                              /\ \A j \in 1..(k - 1) : ~After(earnings[j])
                              /\ a.upcoming_date = earnings[k].period
                    /\ a.hasLatest
                    /\ a.latest_date = earnings[1].period
                    /\ a.surprise_pct = earnings[1].surprisePercent

\* C15 witness: a list in no date order with two future reports; the upcoming
\* one is the first of them in the list, not the nearest, and the latest one
\* is the oldest report.
C15_Witness ==
    /\ Called /\ Analyzed("AAPL") /\ HasRecord("finnhub_earnings", "AAPL")
    /\ RecordOf("finnhub_earnings", "AAPL")
          = Dated(<<Today - 90, Today - 1, Today + 30, Today + 1>>)
    /\ Profile("AAPL").hasUpcoming
    /\ Profile("AAPL").upcoming_date = Today + 30
    /\ Profile("AAPL").latest_date = Today - 90

FinnhubTickers == {"AAPL", "NVDA", "TSLA"}

HasAnyRecord(t) ==
    \E i \in 1..Len(RequiredFinnhub) : HasRecord(RequiredFinnhub[i], t)

\* C16: every ticker that has a quote, sentiment, earnings or insider record
\* gets a profile whose score is computed from the records that exist,
\* whichever kind of record, or whole data set, is absent.
C16_RecordsIndependent ==
    Called =>
        \A t \in FinnhubTickers :
            HasAnyRecord(t) =>
                /\ Analyzed(t)
                /\ IsMeanOfComponents(Profile(t).finnhub_score, t)

-----------------------------------------------------------------------------
(* Claims about the ideas of a market *)

Generated == pc \in {"generated", "saved"}

IdeasOf(kind, market) ==
    {j \in 1..Len(self_ideas) :
        self_ideas[j].title.kind = kind /\ self_ideas[j].market = market}

\* the index of a market has performance metrics
ValidIndex(mk) ==
    /\ mk.index.json = "dict"
    /\ ~analyze_stock_performance(mk.index, DefaultPeriod).raised
    /\ analyze_stock_performance(mk.index, DefaultPeriod).perf # <<>>

\* C17: every loaded market whose index has performance metrics gets exactly
\* one Market Overview idea, whether or not any of its stocks has
\* performance metrics.
C17_OverviewPerValidIndex ==
    Generated =>
        \A i \in 1..Len(self_markets) :
            ValidIndex(self_markets[i].v) =>
                Cardinality(IdeasOf("Market Overview", self_markets[i].k)) = 1

\* the performance metrics of the stocks of the market, in iteration order
StocksPerf ==
    analyze_stock_performance(self_markets[1].v.stocks, DefaultPeriod).perf

Better(P, i, j) == RatLess(P[j].v.return, P[i].v.return)

\* place of entry i in descending order of return, entries of equal return
\* in iteration order
Rank(P, i) ==
    Cardinality({j \in 1..Len(P) :
        Better(P, j, i) \/ (RatEq(P[j].v.return, P[i].v.return) /\ j < i)})

NamesFirstOfBest(P) ==
    P # <<>> =>
        /\ Cardinality(IdeasOf("Top Performer", "S&P500")) = 1
        /\ \A j \in IdeasOf("Top Performer", "S&P500") :
              \E i \in 1..Len(P) :
                  /\ self_ideas[j].asset = P[i].k
                  /\ \A k \in 1..Len(P) : ~Better(P, k, i)
                  /\ \A k \in 1..(i - 1) : Better(P, i, k)

\* C18: the top-performer idea of an analyzed market names the stock with the
\* highest return among the stocks that have performance metrics, the first
\* of them in the iteration order of the stocks when several tie.
C18_TopPerformerFirstOfBest ==
    Generated => NamesFirstOfBest(StocksPerf)

\* C18 witness: two stocks tie on the highest return, a stock with a lower
\* return comes before them, and the idea names the first of the two.
TieOnBest(P) ==
    /\ Len(P) >= 3
    /\ \E i, k \in 2..Len(P) :
          /\ i < k
          /\ RatEq(P[i].v.return, P[k].v.return)
          /\ \A n \in 1..Len(P) : ~Better(P, n, i)
          /\ \A n \in 1..(i - 1) : Better(P, i, n)
          /\ \E j \in IdeasOf("Top Performer", "S&P500") :
                self_ideas[j].asset = P[i].k

C18_Witness == Generated /\ TieOnBest(StocksPerf)

\* the sector of the stock of entry i ("Unknown" without a sector key)
SectorAt(P, i) ==
    LET sec == Get(self_markets[1].v.stocks.items, P[i].k).sector
    IN  IF sec = "" THEN "Unknown" ELSE sec

TopFive(P) == {i \in 1..Len(P) : Rank(P, i) < TopCount}

Representatives(P, sec) == {i \in TopFive(P) : SectorAt(P, i) = sec}

\* the place at which a sector is first met when walking the top five
FirstMet(P, sec) ==
    CHOOSE r \in 0..Len(P) :
        /\ \E i \in Representatives(P, sec) : Rank(P, i) = r
        /\ \A i \in Representatives(P, sec) : Rank(P, i) >= r

Dominates(P, a, b) ==
    \/ Cardinality(Representatives(P, a)) > Cardinality(Representatives(P, b))
    \/ /\ Cardinality(Representatives(P, a)) = Cardinality(Representatives(P, b))
       /\ FirstMet(P, a) <= FirstMet(P, b)

\* the sector with the most representatives among the top five, the first
\* met of those that tie
Dominant(P) ==
    CHOOSE a \in {SectorAt(P, i) : i \in TopFive(P)} :
        \A b \in {SectorAt(P, i) : i \in TopFive(P)} : Dominates(P, a, b)

\* the stocks of a sector in descending order of return, the first three
BestOfSector(P, sec) ==
    LET members == {i \in 1..Len(P) : SectorAt(P, i) = sec}
        place(i) == Cardinality({j \in members : Rank(P, j) < Rank(P, i)})
        n == IF Cardinality(members) < SectorTopCount THEN Cardinality(members)
             ELSE SectorTopCount
    IN  [k \in 1..n |-> P[CHOOSE i \in members : place(i) = k - 1].k]

SectorIdeaMatches(P, dominant) ==
    IF dominant = "Unknown" THEN IdeasOf("Sector Strength", "S&P500") = {}
    ELSE /\ Cardinality(IdeasOf("Sector Strength", "S&P500")) = 1
         /\ \A j \in IdeasOf("Sector Strength", "S&P500") :
               /\ self_ideas[j].asset = dominant
               /\ self_ideas[j].rationale = BestOfSector(P, dominant)

\* C19: the dominant sector of an analyzed market is the sector with the
\* most representatives among the top five performers, the first met in
\* descending order of return when sectors tie, and the dominant-sector idea
\* lists the at most three stocks of that sector with the highest return, in
\* descending order of return.
C19_DominantSectorIdea ==
    Generated /\ StocksPerf # <<>> =>
        SectorIdeaMatches(StocksPerf, Dominant(StocksPerf))

SectorTie(P, dominant) ==
    /\ Len(P) > TopCount
    /\ \E i \in TopFive(P) :
          /\ SectorAt(P, i) # dominant
          /\ Cardinality(Representatives(P, SectorAt(P, i)))
                = Cardinality(Representatives(P, dominant))
          /\ SectorAt(P, i) # "Unknown"
    /\ \E j \in IdeasOf("Sector Strength", "S&P500") :
          /\ self_ideas[j].asset = dominant
          /\ Len(self_ideas[j].rationale) = 2
          /\ Better(P, CHOOSE i \in 1..Len(P) : P[i].k = self_ideas[j].rationale[1],
                       CHOOSE i \in 1..Len(P) : P[i].k = self_ideas[j].rationale[2])
          /\ self_ideas[j].rationale[2] = P[2].k

\* C19 witness: six stocks with metrics, two sectors tie among the top five,
\* the idea is for the one met first and lists its two stocks, the better
\* one first although it comes later in the iteration order.
C19_Witness ==
    Generated /\ StocksPerf # <<>> /\ SectorTie(StocksPerf, Dominant(StocksPerf))

-----------------------------------------------------------------------------
(* Claims about the alternative-data pick, checked under Spec *)

AltPicks == {j \in 1..Len(self_ideas) : self_ideas[j].title.kind = "Alternative Data Pick"}

\* the ideas of the market blocks, which precede the alternative-data block
Featured(ticker) ==
    \E j \in 1..Len(self_ideas) :
        /\ self_ideas[j].title.kind
              \in {"Market Overview", "Top Performer", "Sector Strength"}
        /\ self_ideas[j].asset = ticker

\* entry i of the profiles has a score above 5 that no other entry exceeds
BestAboveThreshold(profiles, i) ==
    /\ HighScore(profiles[i])
    /\ \A k \in 1..Len(profiles) :
          ~RatLess(profiles[i].v.finnhub_score, profiles[k].v.finnhub_score)

PickMatches(profiles) ==
    /\ AltPicks # {} <=>
          \E i \in 1..Len(profiles) :
              BestAboveThreshold(profiles, i) /\ ~Featured(profiles[i].k)
    /\ \A j \in AltPicks :
          \E i \in 1..Len(profiles) :
              BestAboveThreshold(profiles, i) /\ self_ideas[j].asset = profiles[i].k

AltDataReached ==
    \E n \in 1..Len(evaluated) : evaluated[n] = <<"alternative data">>

\* C20: once the alternative-data block is reached, an Alternative Data Pick
\* idea is in the list if and only if some ticker has a finnhub_score above 5
\* and the best such ticker is not yet the asset of an idea; the idea names
\* that ticker.  A score of exactly 5 does not qualify.
C20_PickIffBestUnfeatured ==
    AltDataReached =>
        \E order \in TickerOrders(self_data) :
            PickMatches(analyze_finnhub_data(self_data, order, Ordinal(TODAY)).fh)

-----------------------------------------------------------------------------
(* Claims about the insider-activity and forex ideas, checked under Spec *)

InsiderIdeas == {j \in 1..Len(self_ideas) : self_ideas[j].title.kind = "Insider Activity"}

\* entry i of the profiles has insider data with a net above 2
NetAboveThreshold(profiles, i) ==
    profiles[i].v.hasInsider /\ profiles[i].v.net_transactions > 2

\* entry i has a net above 2 that no other entry with insider data exceeds
GreatestNet(profiles, i) ==
    /\ NetAboveThreshold(profiles, i)
    /\ \A k \in 1..Len(profiles) :
          profiles[k].v.hasInsider
              => profiles[k].v.net_transactions <= profiles[i].v.net_transactions

InsiderMatches(profiles) ==
    /\ InsiderIdeas # {} <=> \E i \in 1..Len(profiles) : NetAboveThreshold(profiles, i)
    /\ Cardinality(InsiderIdeas) <= 1
    /\ \A j \in InsiderIdeas :
          \E i \in 1..Len(profiles) :
              GreatestNet(profiles, i) /\ self_ideas[j].asset = profiles[i].k

\* C21: once the tickers are analyzed and the rules that use the analysis
\* are reached, an Insider Activity idea is in the list if and only if some
\* analyzed ticker has net insider transactions above 2; there is one such
\* idea at most and it names a ticker with the greatest net.  A net of
\* exactly 2 does not qualify.
C21_InsiderIffNetAboveTwo ==
    AltDataReached =>
        \E order \in TickerOrders(self_data) :
            InsiderMatches(analyze_finnhub_data(self_data, order, Ordinal(TODAY)).fh)

ForexIdeas == {j \in 1..Len(self_ideas) : self_ideas[j].title.kind = "Forex Opportunity"}

\* generate_investment_ideas has been called and has returned or raised
GenerateCalled == pc \in {"generated", "saved", "crashed"}

\* the loaded forex snapshot yields performance metrics for some pair
ForexMetricsGiven ==
    /\ Has(self_data, "forex")
    /\ ~analyze_stock_performance(Get(self_data, "forex"), DefaultPeriod).raised
    /\ analyze_stock_performance(Get(self_data, "forex"), DefaultPeriod).perf # <<>>

\* no pair of the metrics P has a greater return than entry i
GreatestReturn(P, i) ==
    \A k \in 1..Len(P) : ~RatLess(P[i].v.return, P[k].v.return)

\* r > 1.0 or r < -1.0
MovesMoreThanOne(r) == RatLess(Rat(1, 1), r) \/ RatLess(r, Rat(-1, 1))

DirectionOf(r) ==
    IF RatLess(Rat(0, 1), r) THEN "bullish"
    ELSE IF RatLess(r, Rat(0, 1)) THEN "bearish"
    ELSE "none"

ForexIdeaMatches(P) ==
    /\ ForexIdeas # {} <=>
          \E i \in 1..Len(P) : GreatestReturn(P, i) /\ MovesMoreThanOne(P[i].v.return)
    /\ \A j \in ForexIdeas :
          \E i \in 1..Len(P) :
              /\ GreatestReturn(P, i)
              /\ self_ideas[j].asset = ForexName(P[i].k)
              /\ self_ideas[j].direction = DirectionOf(P[i].v.return)

\* C22: given forex performance metrics, a Forex Opportunity idea is in the
\* list if and only if the pair with the greatest return moved by more than
\* 1.0 per cent in absolute value; the idea names that pair and its direction
\* is bullish for a positive return and bearish for a negative one.
C22_ForexIffGreatestMovesMoreThanOne ==
    (GenerateCalled /\ ForexMetricsGiven) =>
        ForexIdeaMatches(
            analyze_stock_performance(Get(self_data, "forex"), DefaultPeriod).perf)

-----------------------------------------------------------------------------
(* Claims about the idea list as a whole, checked under Spec *)

BondIdeas == {j \in 1..Len(self_ideas) : self_ideas[j].title.kind = "Bond Market Development"}

MarketKinds == {"Market Overview", "Top Performer", "Sector Strength"}

OtherKinds ==
    {"Alternative Data Pick", "Insider Activity", "Forex Opportunity",
     "Bond Market Development"}

AllFinnhubLoaded ==
    \A i \in 1..Len(RequiredFinnhub) : Has(self_data, RequiredFinnhub[i])

\* the rule block that was being evaluated when an exception left the method
RaisedIn ==
    IF pc = "crashed" /\ evaluated # <<>> THEN evaluated[Len(evaluated)][1] ELSE ""

AtMostOnePerRule ==
    /\ \A j \in 1..Len(self_ideas) :
          \/ /\ self_ideas[j].title.kind \in MarketKinds
             /\ Has(self_markets, self_ideas[j].market)
          \/ self_ideas[j].title.kind \in OtherKinds
    /\ \A i \in 1..Len(self_markets) : \A kind \in MarketKinds :
          Cardinality(IdeasOf(kind, self_markets[i].k)) <= 1
    /\ \A kind \in OtherKinds :
          Cardinality({j \in 1..Len(self_ideas) : self_ideas[j].title.kind = kind}) <= 1
    /\ Len(self_ideas) <= 3 * Len(self_markets) + 4

MissingDataIsSkipped ==
    /\ ~Has(self_data, "forex") => ForexIdeas = {} /\ RaisedIn # "forex"
    /\ ~Has(self_data, "bonds") => BondIdeas = {} /\ RaisedIn # "bond"
    /\ ~AllFinnhubLoaded =>
          /\ AltPicks = {} /\ InsiderIdeas = {}
          /\ RaisedIn \notin {"alternative data", "insider"}
          /\ \A order \in TickerOrders(self_data) :
                ~analyze_finnhub_data(self_data, order, Ordinal(TODAY)).raised

\* C23: the list holds at most one market-overview, one top-performer and
\* one dominant-sector idea per loaded market and at most one
\* alternative-data, insider, forex and bond idea, so at most
\* 3 * (number of markets) + 4 ideas; a rule whose optional data set is not
\* loaded adds no idea and is not the rule that raised.
C23_AtMostOneIdeaPerRule ==
    GenerateCalled => AtMostOnePerRule /\ MissingDataIsSkipped

C23_Witness ==
    /\ Generated
    /\ Len(self_markets) = 2
    /\ Len(self_ideas) = 3 * Len(self_markets) + 4

\* the number of the rule block that produces an idea of the given kind
BlockNumber(kind) ==
    CASE kind = "Market Overview"         -> 1
      [] kind = "Top Performer"           -> 2
      [] kind = "Sector Strength"         -> 3
      [] kind = "Alternative Data Pick"   -> 4
      [] kind = "Insider Activity"        -> 5
      [] kind = "Forex Opportunity"       -> 6
      [] kind = "Bond Market Development" -> 7

BlockOf(j) == BlockNumber(self_ideas[j].title.kind)

\* the position of a market in the iteration order of self.markets
MarketPosition(name) == CHOOSE i \in 1..Len(self_markets) : self_markets[i].k = name

\* C24 as stated: an idea of a lower-numbered rule block never appears after
\* an idea of a higher-numbered rule block, for any number of markets.
C24_OrderedByRuleBlock ==
    \A i, j \in 1..Len(self_ideas) : i < j => BlockOf(i) <= BlockOf(j)

\* idea i is generated before idea j: a market idea before every idea of the
\* blocks 4 to 7, the market ideas market by market in the iteration order of
\* the markets, and otherwise by the number of the rule block
GeneratedBefore(i, j) ==
    IF BlockOf(i) <= 3 /\ BlockOf(j) <= 3
    THEN \/ MarketPosition(self_ideas[i].market) < MarketPosition(self_ideas[j].market)
         \/ /\ self_ideas[i].market = self_ideas[j].market
            /\ BlockOf(i) < BlockOf(j)
    ELSE BlockOf(i) < BlockOf(j)

\* C24 (amended): the ideas of the blocks 1 to 3 are grouped market by market
\* in the iteration order of the markets and ordered by rule block within a
\* market; every idea of the blocks 4 to 7 comes after all market ideas, and
\* those ideas are ordered by rule block.
C24_OrderedByMarketThenRuleBlock ==
    \A i, j \in 1..Len(self_ideas) : i < j => GeneratedBefore(i, j)

\* a market overview follows another market's sector idea, and ideas of the
\* later blocks follow both
C24_Witness ==
    /\ Generated
    /\ \E i, j, k, l \in 1..Len(self_ideas) :
          /\ i < j /\ j < k /\ k < l
          /\ BlockOf(i) = 3 /\ BlockOf(j) = 1
          /\ BlockOf(k) = 5 /\ BlockOf(l) = 6

-----------------------------------------------------------------------------
(* Claims about repeated and combined runs, checked under Spec *)

\* C25: a second run of generate_investment_ideas over the same loaded data
\* on the same day returns the list of ideas the first run produced, in the
\* same order, whatever the iteration order of the ticker set is in the
\* second run.
C25_SecondRunSameIdeas ==
    Generated =>
        \A order \in TickerOrders(self_data) :
            LET g == generate_investment_ideas(self_markets, self_data, order,
                                               Ordinal(TODAY))
            IN  ~g.raised /\ g.ideas = self_ideas

-----------------------------------------------------------------------------
(* Claims about the life of an instrument series, checked under SpecSeries *)

SameBarAsText(b, c) ==
    /\ c.Date = b.Date /\ c.Close = b.Close
    /\ ~c.stamp

OnlyDatesBecameText(before, after) ==
    /\ Keys(after) = Keys(before)
    /\ \A i \in 1..Len(before) :
          IF before[i].v.kind = "dict"
          THEN /\ Len(after[i].v.history) = Len(before[i].v.history)
               /\ \A j \in 1..Len(before[i].v.history) :
                     SameBarAsText(before[i].v.history[j], after[i].v.history[j])
               /\ [after[i].v EXCEPT !.history = <<>>]
                     = [before[i].v EXCEPT !.history = <<>>]
          ELSE after[i].v = before[i].v

-----------------------------------------------------------------------------
(* The collector followed by the analyzer on the directory it wrote, as in  *)
(* update_investment_data: collect_module.main() then analyze_module.main().*)
(* The finnhub client is down (its snapshots are empty objects) and Alpaca  *)
(* answers, so that the services behind stocks, forex and bonds vary.       *)

InitCollectThenAnalyze ==
    /\ services \in [eodhd : {"up", "down"}, alpaca : {"up"}, twelve : Statuses,
                     fred : Statuses, newsapi : {"up"}, finnhub : {"down"},
                     search : {"news"}, realtime : {"up"}, pytrends : {"up"},
                     alpha : {"up"}]
    /\ all_failed_items = NoFailures
    /\ markets_processed = 0
    /\ cpc = "markets"
    /\ rng \in Seeds
    /\ RAW_DATA_DIR = {} /\ TODAY = RunDay
    /\ self_markets = <<>> /\ self_data = <<>> /\ self_ideas = <<>>
    /\ evaluated = <<>> /\ PROCESSED_DATA_DIR = <<>>
    /\ pc = "start"
    /\ PerfIdle /\ InvocationsIdle /\ CloudIdle /\ StoreIdle
    /\ FnIdle /\ SeriesIdle /\ FetchIdle

\* analyze_module.main() starts when collect_module.main() has returned
LoadCollected == cpc = "done" /\ Load

NextCollectThenAnalyze ==
    CollectMarket \/ CollectOther \/ LoadCollected \/ Generate \/ Save

SpecCollectThenAnalyze == InitCollectThenAnalyze /\ [][NextCollectThenAnalyze]_vars

-----------------------------------------------------------------------------
(* The forex and bond snapshots of the collector, read by the analyzer *)

\* the entries analyze_stock_performance finds in a loaded snapshot
EntriesOf(type) ==
    analyze_stock_performance(Get(self_data, type), DefaultPeriod)

\* some collected series of the snapshot moved by more than the threshold
\* of its rule over the bars the analyzer would look at
CollectedMove(type, n) ==
    /\ Has(self_data, type)
    /\ \E i \in 1..Len(Get(self_data, type).items) :
          LET h == Get(self_data, type).items[i].v.history
          IN  /\ Len(h) >= DefaultPeriod
              /\ AbsExceeds(PerformanceMetrics(tail(sort_index(h), DefaultPeriod)).return, n)

\* C27: the forex and bond snapshots the collector writes map each item to
\* a list of bars, so analyzing them yields no entry (and raises nothing),
\* and a run of the analyzer over a collected directory emits neither a
\* forex nor a bond idea
C27_CollectedForexAndBondsYieldNoIdea ==
    pc \in {"loaded", "generated", "saved", "crashed"} =>
        /\ \A type \in {"forex", "bonds"} :
              /\ Has(self_data, type)
              /\ \A i \in 1..Len(Get(self_data, type).items) :
                    Get(self_data, type).items[i].v.kind = "list"
              /\ EntriesOf(type) = [raised |-> FALSE, perf |-> <<>>]
        /\ ForexIdeas = {} /\ BondIdeas = {}

\* the analyzer has produced ideas from a directory whose forex pairs moved
\* 2 per cent and whose yields moved 10 per cent, none of them about these
C27_Witness ==
    /\ pc = "generated"
    /\ self_ideas # <<>>
    /\ CollectedMove("forex", ForexMove)
    /\ CollectedMove("bonds", YieldMove)
    /\ ForexIdeas = {} /\ BondIdeas = {}

-----------------------------------------------------------------------------
(* fetch_stock_data applied to bounded inputs: a list of tickers (a mapped  *)
(* index, regular tickers, an index no fetcher has a mapping for) and the   *)
(* state of the three services behind it                                    *)

TickerLists ==
    {<<"^GSPC">>, <<"AAPL", "MSFT">>, <<"^FVX", "AAPL">>,
     <<"MSFT", "^GSPC", "^FVX">>, <<"AZN.L", "SHEL.L", "^IRX">>}

InitFetch ==
    /\ fetch_tickers \in TickerLists
    /\ services \in [eodhd : Statuses, alpaca : Statuses, twelve : Statuses]
    /\ rng \in Seeds
    /\ TODAY = RunDay
    /\ fetch_returned = <<>>
    /\ pcFetch = "init"
    /\ PerfIdle /\ RAW_DATA_DIR = {} /\ AnalyzerIdle /\ InvocationsIdle
    /\ all_failed_items = <<>> /\ markets_processed = 0 /\ cpc = "idle"
    /\ CloudIdle /\ StoreIdle /\ FnIdle /\ SeriesIdle

\* stock_data = fetch_stock_data(tickers)
CallFetch ==
    /\ pcFetch = "init"
    /\ fetch_returned' = fetch_stock_data(fetch_tickers, services, Ordinal(TODAY), rng)
    /\ rng' = fetch_stock_data(fetch_tickers, services, Ordinal(TODAY), rng).rng
    /\ pcFetch' = "done"
    /\ UNCHANGED <<fetch_tickers, services, TODAY>>
    /\ UNCHANGED outsideFetch

NextFetch == CallFetch

SpecFetch == InitFetch /\ [][NextFetch]_vars

-----------------------------------------------------------------------------
(* The fallback chain of fetch_stock_data, checked under SpecFetch *)

Elems(q) == {q[i] : i \in 1..Len(q)}

\* what fetch_eodhd_stock_data returned in the call
FromEodhd == fetch_eodhd_stock_data(fetch_tickers, services.eodhd)

\* what fetch_alpaca_stock_data returned, real bars or synthetic ones
FromAlpaca == fetch_returned.alpaca_data

\* C28: a later stage of fetch_stock_data is asked only for tickers that
\* are still missing and never replaces data already obtained: a ticker
\* EODHD delivered keeps the EODHD data and is asked of neither Alpaca nor
\* Twelve Data, and a ticker Alpaca delivered keeps that data and is not
\* asked of Twelve Data
C28_LaterStageOnlyForMissing ==
    pcFetch = "done" =>
        /\ \A t \in KeySet(FromEodhd) :
              /\ Has(fetch_returned.data, t)
              /\ Get(fetch_returned.data, t) = Get(FromEodhd, t)
              /\ t \notin Elems(fetch_returned.alpaca)
              /\ t \notin Elems(fetch_returned.twelve)
        /\ \A t \in KeySet(FromAlpaca) :
              /\ Has(fetch_returned.data, t)
              /\ Get(fetch_returned.data, t) = Get(FromAlpaca, t)
              /\ t \notin Elems(fetch_returned.twelve)
        /\ \A t \in Elems(fetch_returned.alpaca) :
              ~startswith_caret(t) \/ t \in index_mapping => Has(FromAlpaca, t)
        /\ Elems(fetch_returned.alpaca) \subseteq Elems(fetch_tickers)
        /\ Elems(fetch_returned.twelve) \subseteq Elems(fetch_returned.alpaca)

\* EODHD delivered one ticker, Alpaca another (asked for it alone), and
\* Twelve Data was asked for the one that was left
C28_Witness ==
    /\ pcFetch = "done"
    /\ KeySet(FromEodhd) # {}
    /\ KeySet(FromAlpaca) # {}
    /\ fetch_returned.twelve # <<>>
    /\ KeySet(fetch_returned.data) = Elems(fetch_tickers)

-----------------------------------------------------------------------------
(* The order of the three stages of update_investment_data, under SpecCloud *)

\* today's files of the collection are in the raw directory
CollectionDone(raw) ==
    \A i \in 1..Len(CollectedTypes) :
        \E f \in raw : f.type = CollectedTypes[i] /\ f.date = TODAY

\* today's output of the analysis is in the processed directory
AnalysisDone(processed) == Has(processed, strftime(TODAY))

UploadAttempted == UploadsBegan \/ bucket # {} \/ pcCloud \in {"raw", "processed"}

\* C29: update_investment_data runs the collection, the analysis and the
\* uploads strictly in that order: the analysis has not written before the
\* collection has returned, an upload is attempted only when both have
\* returned without raising and is_running_on_cloud() holds, and when the
\* collection or the analysis raises no upload is attempted and the
\* function returns False
C29_CollectAnalyzeUploadInOrder ==
    /\ pcCloud = "start" => ~CollectionDone(RAW_DATA_DIR)
    /\ pcCloud \in {"start", "collected"} =>
          ~AnalysisDone(PROCESSED_DATA_DIR) /\ ~UploadAttempted
    /\ AnalysisDone(PROCESSED_DATA_DIR) =>
          CollectionDone(RAW_DATA_DIR) /\ ~cloud_env.collection_raises
    /\ UploadAttempted =>
          /\ cloud_env.GCP_AVAILABLE /\ cloud_env.STORAGE_BUCKET
          /\ cloud_env.K_SERVICE
          /\ ~cloud_env.collection_raises /\ ~cloud_env.analysis_raises
          /\ CollectionDone(local_before[1]) /\ AnalysisDone(local_before[2])
    /\ pcCloud = "returned" =>
          IF cloud_env.collection_raises \/ cloud_env.analysis_raises
          THEN result = FALSE /\ ~UploadAttempted
          ELSE result = TRUE /\ (UploadAttempted <=> is_running_on_cloud(cloud_env))

\* the function returned False on the cloud after the analysis raised on a
\* directory the collection had filled, and nothing was uploaded
C29_Witness ==
    /\ pcCloud = "returned"
    /\ is_running_on_cloud(cloud_env)
    /\ cloud_env.analysis_raises /\ ~cloud_env.collection_raises
    /\ CollectionDone(RAW_DATA_DIR) /\ ~AnalysisDone(PROCESSED_DATA_DIR)
    /\ result = FALSE /\ bucket = {} /\ ~UploadsBegan

-----------------------------------------------------------------------------
(* The alternative-data and insider rules and the ideas before them, under  *)
(* Spec                                                                     *)

\* the tickers as analyze_finnhub_data profiles them; the profile of a
\* ticker does not depend on the order in which the tickers are visited
Profiles ==
    analyze_finnhub_data(self_data, CHOOSE order \in TickerOrders(self_data) : TRUE,
                         Ordinal(TODAY)).fh

\* entry i has a score above 5, is the asset of no idea of a market block,
\* and some other entry has a greater score
LesserUnfeatured(profiles, i) ==
    /\ HighScore(profiles[i]) /\ ~Featured(profiles[i].k)
    /\ ~BestAboveThreshold(profiles, i)

\* every Alternative Data Pick names a highest scorer, and there is none
\* when every highest scorer is the asset of an idea
HighestScorerOrNone(profiles) ==
    /\ \A j \in AltPicks :
          \E i \in 1..Len(profiles) :
              BestAboveThreshold(profiles, i) /\ self_ideas[j].asset = profiles[i].k
    /\ (\A i \in 1..Len(profiles) :
            BestAboveThreshold(profiles, i) => Featured(profiles[i].k))
          => AltPicks = {}

\* the one ticker with the greatest net above 2 has its Insider Activity idea
GreatestNetNamed(profiles) ==
    \A i \in 1..Len(profiles) :
        /\ GreatestNet(profiles, i)
        /\ \A k \in 1..Len(profiles) : GreatestNet(profiles, k) => k = i
        => \E j \in InsiderIdeas : self_ideas[j].asset = profiles[i].k

\* C30: the alternative-data rule looks at the highest-scoring ticker alone:
\* an Alternative Data Pick never names a ticker whose score another ticker
\* exceeds, and when every highest-scoring ticker is already the asset of an
\* idea there is no Alternative Data Pick, whatever other tickers score
\* above 5.  The insider rule has no such test: in a run that ends, the
\* ticker with the greatest net above 2 is named by an Insider Activity idea
\* even when an earlier idea is about it.
C30_OnlyHighestScorerConsidered ==
    AltDataReached =>
        /\ HighestScorerOrNone(Profiles)
        /\ Generated => GreatestNetNamed(Profiles)

\* the highest scorer is the asset of an earlier idea and is named by the
\* Insider Activity idea, and another ticker scoring above 5 is the asset of
\* no idea
FeaturedBestAndInsider(profiles) ==
    /\ \E i \in 1..Len(profiles) : LesserUnfeatured(profiles, i)
    /\ \E i \in 1..Len(profiles) :
          /\ BestAboveThreshold(profiles, i) /\ Featured(profiles[i].k)
          /\ \E j \in InsiderIdeas : self_ideas[j].asset = profiles[i].k

\* a run ended with no Alternative Data Pick although a ticker scoring above
\* 5 is the asset of no idea, the highest scorer being the top performer of
\* a market; the Insider Activity idea is about that same ticker
C30_Witness ==
    /\ Generated /\ AltDataReached
    /\ AltPicks = {}
    /\ FeaturedBestAndInsider(Profiles)

=============================================================================
